---- MODULE Spec2Model ----
(***************************************************************************)
(* A model of the hasdrubal compiler (repository Armani-T/hanno):          *)
(*   - the driver run.py (phases, halting, error propagation),             *)
(*   - the string expander visitors/string_expander.py,                    *)
(*   - the EOL inference pass lex/eol_inference.py,                        *)
(*   - the type inferer type_inferer.py.                                   *)
(* Each subsystem has its own variables and its own specification; the     *)
(* variables of the other subsystems stay at their idle values.            *)
(***************************************************************************)
EXTENDS Integers, Sequences, FiniteSets, TLC

VARIABLES
    \* run.py: run_code
    config,        \* the ConfigData flags the driver reads
    run_pc,        \* position inside run_code
    phase_ix,      \* index into phases of the phase being run
    task_ix,       \* index of the next task of the phase (before, main, after)
    source,        \* the value threaded through the phases
    ran,           \* the tasks that have completed, in order
    raised,        \* the HasdrubalError raised, if any
    written,       \* whether write_to_file was called
    run_result,    \* the value run_code returned
    \* string_expander.py: expand_string
    string,        \* the argument
    string_parts,  \* the list of parts built by the loop
    prev_end,      \* end of the previous match
    exp_pc,        \* position inside expand_string
    expanded,      \* the value returned
    \* eol_inference.py: insert_eols
    stream,        \* the token stream handed to insert_eols
    tok_ix,        \* number of tokens consumed by the for loop
    paren_stack_size,
    prev_token,
    emitted,       \* the tokens yielded so far
    eol_pc,
    \* type_inferer.py: infer_types and the functions it uses
    tree,          \* the AST being annotated
    equations,     \* generator.equations
    eq_ix,         \* number of equations folded into the substitution
    substitution,  \* the substitution being built
    n_type_vars,   \* TypeVar.n_type_vars, the fresh variable counter
    inf_pc,        \* position inside infer_types
    inf_error,     \* the exception that ended infer_types, if any
    \* direct calls of the pure functions of type_inferer.py
    call_args,     \* the arguments of the call
    call_pc,
    call_result

runVars == <<config, run_pc, phase_ix, task_ix, source, ran, raised, written, run_result>>
expVars == <<string, string_parts, prev_end, exp_pc, expanded>>
eolVars == <<stream, tok_ix, paren_stack_size, prev_token, emitted, eol_pc>>
infVars == <<tree, equations, eq_ix, substitution, inf_pc, inf_error>>
callVars == <<call_args, call_pc, call_result>>
vars == <<runVars, expVars, eolVars, infVars, callVars, n_type_vars>>

\* Python's None
None == <<"None">>

(***************************************************************************)
(* Generic helpers                                                         *)
(***************************************************************************)
Range(s) == {s[i] : i \in 1..Len(s)}

RECURSIVE SeqsUpTo(_, _)
\* all sequences over S of length at most n
SeqsUpTo(S, n) ==
    IF n = 0 THEN {<<>>}
    ELSE LET shorter == SeqsUpTo(S, n - 1)
         IN shorter \cup {Append(s, x) : s \in {t \in shorter : Len(t) = n - 1}, x \in S}

(***************************************************************************)
(* Idle values: the state of a subsystem that is not running               *)
(***************************************************************************)
IdleRun ==
    /\ config = None /\ run_pc = "idle" /\ phase_ix = 0 /\ task_ix = 0
    /\ source = <<>> /\ ran = <<>> /\ raised = None /\ written = FALSE
    /\ run_result = None

IdleExp ==
    /\ string = <<>> /\ string_parts = <<>> /\ prev_end = 0
    /\ exp_pc = "idle" /\ expanded = <<>>

IdleEol ==
    /\ stream = <<>> /\ tok_ix = 0 /\ paren_stack_size = 0
    /\ prev_token = None /\ emitted = <<>> /\ eol_pc = "idle"

IdleInf ==
    /\ tree = None /\ equations = <<>> /\ eq_ix = 0 /\ substitution = <<>>
    /\ inf_pc = "idle" /\ inf_error = None

IdleCall ==
    /\ call_args = None /\ call_pc = "idle" /\ call_result = None

IdleTypes == IdleInf /\ IdleCall /\ n_type_vars = 0

(***************************************************************************)
(* run.py                                                                  *)
(***************************************************************************)
\* run.py:134  phases = ("lexing", "parsing", "type_checking", "codegen")
phases == <<"lexing", "parsing", "type_checking", "codegen">>

\* the flags of ConfigData that generate_tasks reads
Configs ==
    [show_tokens : BOOLEAN, show_ast : BOOLEAN, show_types : BOOLEAN,
     sort_defs : BOOLEAN, compress : BOOLEAN]

\* tasks that hold the optional passes whatever the flags say
generate_tasks_unconditional(c) ==
    [lexing |->
        [before |-> <<"normalise_newlines">>,
         main |-> "lex",
         after |-> <<"infer_eols">>,
         should_stop |-> c.show_tokens,
         on_stop |-> "show_tokens"],
     parsing |->
        [before |-> <<"TokenStream">>,
         main |-> "parse",
         after |-> <<>>,
         should_stop |-> c.show_ast,
         on_stop |-> "ASTPrinter.run"],
     type_checking |->
        [before |-> <<"resolve_type_vars", "inline_functions",
                      "topological_sort">>,
         main |-> "infer_types",
         after |-> <<>>,
         should_stop |-> c.show_types,
         on_stop |-> "TypedASTPrinter.run"],
     codegen |->
        [before |-> <<"simplify", "fold_constants">>,
         main |-> "to_bytecode",
         after |-> <<"compress">>,
         should_stop |-> FALSE,
         on_stop |-> "empty_string"]]

\* run.py:44-77  generate_tasks
generate_tasks(c) ==
    [lexing |->
        [before |-> <<"normalise_newlines">>,
         main |-> "lex",
         after |-> <<"infer_eols">>,
         should_stop |-> c.show_tokens,
         on_stop |-> "show_tokens"],
     parsing |->
        [before |-> <<"TokenStream">>,
         main |-> "parse",
         after |-> <<>>,
         should_stop |-> c.show_ast,
         on_stop |-> "ASTPrinter.run"],
     type_checking |->
        [before |-> <<"resolve_type_vars", "inline_functions",
                      IF c.sort_defs THEN "topological_sort" ELSE "do_nothing">>,
         main |-> "infer_types",
         after |-> <<>>,
         should_stop |-> c.show_types,
         on_stop |-> "TypedASTPrinter.run"],
     codegen |->
        [before |-> <<"simplify", "fold_constants">>,
         main |-> "to_bytecode",
         after |-> <<IF c.compress THEN "compress" ELSE "do_nothing">>,
         should_stop |-> FALSE,
         on_stop |-> "empty_string"]]

\* run.py:98-102  the calls inner makes, in order: pipe(before), main, pipe(after)
PhaseTasks(pd) == pd.before \o <<pd.main>> \o pd.after

\* run.py:22  do_nothing = lambda x: x ; every other task maps its argument to
\* a new value, written here as the list of the functions applied so far
ApplyTask(task, value) ==
    IF task = "do_nothing" THEN value ELSE Append(value, task)

\* run.py:140  isinstance(source, bytes): to_bytecode and compress return bytes
IsBytes(value) ==
    /\ Len(value) > 0
    /\ value[Len(value)] \in {"to_bytecode", "compress"}

InitRun ==
    /\ config \in Configs
    /\ run_pc = "phase"
    /\ phase_ix = 1
    /\ task_ix = 1
    /\ source = <<>>
    /\ ran = <<>>
    /\ raised = None
    /\ written = FALSE
    /\ run_result = None
    /\ IdleExp /\ IdleEol /\ IdleTypes

CurrentPhase == generate_tasks(config)[phases[phase_ix]]

\* run.py:97-102  one call made by inner returns normally
RunTask ==
    /\ run_pc = "phase"
    /\ task_ix <= Len(PhaseTasks(CurrentPhase))
    /\ LET task == PhaseTasks(CurrentPhase)[task_ix]
       IN /\ source' = ApplyTask(task, source)
          /\ ran' = Append(ran, <<phases[phase_ix], task>>)
    /\ task_ix' = task_ix + 1
    /\ UNCHANGED <<config, run_pc, phase_ix, raised, written, run_result>>
    /\ UNCHANGED <<expVars, eolVars, infVars, callVars, n_type_vars>>

\* a driver that records the error of a task but goes on with the next task
RaiseError_Swallowed ==
    /\ run_pc = "phase"
    /\ task_ix <= Len(PhaseTasks(CurrentPhase))
    /\ LET task == PhaseTasks(CurrentPhase)[task_ix]
       IN /\ task # "do_nothing"
          /\ raised' = <<phases[phase_ix], task>>
    /\ task_ix' = task_ix + 1
    /\ UNCHANGED <<config, run_pc, phase_ix, source, ran, written, run_result>>
    /\ UNCHANGED <<expVars, eolVars, infVars, callVars, n_type_vars>>

\* run.py:153-156  a task raises a HasdrubalError: the except clause returns
\* report(error, ...)
RaiseError ==
    /\ run_pc = "phase"
    /\ task_ix <= Len(PhaseTasks(CurrentPhase))
    /\ LET task == PhaseTasks(CurrentPhase)[task_ix]
       IN /\ task # "do_nothing"
          /\ raised' = <<phases[phase_ix], task>>
          /\ run_result' = <<"report", <<phases[phase_ix], task>>>>
    /\ run_pc' = "done"
    /\ UNCHANGED <<config, phase_ix, task_ix, source, ran, written>>
    /\ UNCHANGED <<expVars, eolVars, infVars, callVars, n_type_vars>>

\* a driver that never tests stop and always goes on to the next phase
PhaseEnd_IgnoresStop ==
    /\ run_pc = "phase"
    /\ task_ix > Len(PhaseTasks(CurrentPhase))
    /\ IF phase_ix < Len(phases)
       THEN /\ phase_ix' = phase_ix + 1
            /\ task_ix' = 1
            /\ run_pc' = "phase"
       ELSE /\ run_pc' = "write"
            /\ UNCHANGED <<phase_ix, task_ix>>
    /\ UNCHANGED <<config, source, ran, raised, written, run_result>>
    /\ UNCHANGED <<expVars, eolVars, infVars, callVars, n_type_vars>>

\* run.py:103 and run.py:135-138  inner returns; run_code tests stop
PhaseEnd ==
    /\ run_pc = "phase"
    /\ task_ix > Len(PhaseTasks(CurrentPhase))
    /\ IF CurrentPhase.should_stop
       THEN /\ run_result' = <<"on_stop", CurrentPhase.on_stop, source>>
            /\ run_pc' = "done"
            /\ UNCHANGED <<phase_ix, task_ix>>
       ELSE /\ IF phase_ix < Len(phases)
               THEN /\ phase_ix' = phase_ix + 1
                    /\ task_ix' = 1
                    /\ run_pc' = "phase"
               ELSE /\ run_pc' = "write"
                    /\ UNCHANGED <<phase_ix, task_ix>>
            /\ UNCHANGED run_result
    /\ UNCHANGED <<config, source, ran, raised, written>>
    /\ UNCHANGED <<expVars, eolVars, infVars, callVars, n_type_vars>>

\* run.py:140-152  after the loop: write the bytecode, or raise
\* FatalInternalError when source is not bytes
WriteOut ==
    /\ run_pc = "write"
    /\ IF IsBytes(source)
       THEN /\ written' = TRUE
            /\ run_result' = <<"ok">>
            /\ UNCHANGED raised
       ELSE /\ raised' = <<"run_code", "FatalInternalError">>
            /\ run_result' = <<"report", <<"run_code", "FatalInternalError">>>>
            /\ UNCHANGED written
    /\ run_pc' = "done"
    /\ UNCHANGED <<config, phase_ix, task_ix, source, ran>>
    /\ UNCHANGED <<expVars, eolVars, infVars, callVars, n_type_vars>>

NextRun == RunTask \/ RaiseError \/ PhaseEnd \/ WriteOut

SpecRun == InitRun /\ [][NextRun]_vars

(***************************************************************************)
(* Properties of run_code                                                  *)
(***************************************************************************)
PhaseIndex(name) == CHOOSE i \in 1..Len(phases) : phases[i] = name

\* the phases of the tasks that have completed
PhasesRan == {PhaseIndex(ran[i][1]) : i \in 1..Len(ran)}

RECURSIVE TasksUpTo(_, _)
\* the calls of phases 1..p in the documented order, as <<phase, task>>
TasksUpTo(c, p) ==
    IF p = 0 THEN <<>>
    ELSE LET tasks == PhaseTasks(generate_tasks(c)[phases[p]])
         IN TasksUpTo(c, p - 1) \o [i \in 1..Len(tasks) |-> <<phases[p], tasks[i]>>]

\* the value a list of calls produces from the initial source
ValueOf(calls) ==
    LET names == [i \in 1..Len(calls) |-> calls[i][2]]
    IN SelectSeq(names, LAMBDA t : t # "do_nothing")

IsPrefix(s, t) == Len(s) <= Len(t) /\ s = SubSeq(t, 1, Len(s))

\* the first phase whose should_stop flag is set, 0 when there is none
FirstStop(c) ==
    LET stops == {p \in 1..Len(phases) : generate_tasks(c)[phases[p]].should_stop}
    IN IF stops = {} THEN 0 ELSE CHOOSE p \in stops : \A q \in stops : p <= q

\* C9: once a phase has raised a HasdrubalError, run_code has returned the
\* error reporter's result for that error, no task of a later phase has run
\* (nor any further task of that phase), and write_to_file was not called.
C9_ErrorAborts ==
    (raised # None /\ raised[1] \in Range(phases)) =>
        /\ run_pc = "done"
        /\ run_result = <<"report", raised>>
        /\ written = FALSE
        /\ \A p \in PhasesRan : p <= PhaseIndex(raised[1])
        /\ phases[phase_ix] = raised[1]
        /\ PhaseTasks(CurrentPhase)[Len(SelectSeq(ran, LAMBDA e : e[1] = raised[1])) + 1]
               = raised[2]

\* C9 witness: parsing raised after lexing had completed
C9_Witness ==
    /\ raised = <<"parsing", "parse">>
    /\ run_pc = "done"
    /\ 1 \in PhasesRan

\* C10: the calls are made in the order lexing, parsing, type_checking,
\* codegen; when p is the first phase whose should_stop flag is set, no task of
\* a phase after p ever runs and no file is written, and a run in which no
\* task raises ends with every task of the phases up to p completed (after
\* tasks included) and returns p's on_stop applied to p's output.
C10_HaltAtBoundary ==
    /\ IsPrefix(ran, TasksUpTo(config, Len(phases)))
    /\ LET p == FirstStop(config)
       IN p # 0 =>
            /\ \A q \in PhasesRan : q <= p
            /\ written = FALSE
            /\ (run_pc = "done" /\ raised = None) =>
                  /\ ran = TasksUpTo(config, p)
                  /\ run_result =
                        <<"on_stop", generate_tasks(config)[phases[p]].on_stop,
                          ValueOf(TasksUpTo(config, p))>>

\* C10 witness: show_ast is the first flag set and run_code returned the
\* printer's result after parsing
C10_Witness ==
    /\ run_pc = "done"
    /\ raised = None
    /\ ~config.show_tokens /\ config.show_ast
    /\ run_result[1] = "on_stop"
    /\ ran[Len(ran)] = <<"parsing", "parse">>

(***************************************************************************)
(* visitors/string_expander.py                                             *)
(* A string is the sequence of its code points.                            *)
(***************************************************************************)
MaxStrLen == 4

Backslash == 92

\* the characters the bounded strings are built from:
\* backslash, n (special), a (special and a hex digit), 1 (a hex digit),
\* x (neither), u and U
Alphabet == {92, 110, 97, 49, 120, 117, 85}

\* longer strings, for the escapes that do not fit in MaxStrLen characters:
\* ᆡ, xᄑx, \U0011a1, \U111111, \u111, \1\n\x
LongStrings ==
    { <<92, 117, 49, 49, 97, 49>>,
      <<120, 92, 117, 49, 49, 49, 49, 120>>,
      <<92, 85, 48, 48, 49, 49, 97, 49>>,
      <<92, 85, 49, 49, 49, 49, 49, 49>>,
      <<92, 117, 49, 49, 49>>,
      <<92, 49, 92, 110, 92, 120>> }

Strings == SeqsUpTo(Alphabet, MaxStrLen) \cup LongStrings

\* string_expander.py:30  os.path.sep on a POSIX host
platform_path_separator == 47

\* string_expander.py:11  [abfnrvt/'"\\]
SpecialChars == {97, 98, 102, 110, 114, 118, 116, 47, 39, 34, 92}

\* string_expander.py:12-14  [0-9A-Fa-f]
IsHex(c) == c \in (48..57) \cup (65..70) \cup (97..102)

\* int(digit, base=16)
HexDigit(c) ==
    IF c \in 48..57 THEN c - 48
    ELSE IF c \in 65..70 THEN c - 55
    ELSE c - 87

RECURSIVE HexValue(_)
\* int(text, base=16)
HexValue(text) ==
    IF text = <<>> THEN 0
    ELSE 16 * HexValue(SubSeq(text, 1, Len(text) - 1)) + HexDigit(text[Len(text)])

\* whether the n characters of s from (1-based) position i on are hex digits
HexRun(s, i, n) ==
    /\ i + n - 1 <= Len(s)
    /\ \A k \in i..(i + n - 1) : IsHex(s[k])

\* string_expander.py:9-17  ESCAPE_PATTERN matched at (1-based) position i:
\* the group that matches and the length of the match, the alternatives being
\* tried in the order they are written; length 0 when none matches
MatchAt(s, i) ==
    IF i > Len(s) \/ s[i] # Backslash THEN [group |-> "none", len |-> 0]
    ELSE IF i + 1 <= Len(s) /\ s[i + 1] \in SpecialChars
         THEN [group |-> "special", len |-> 2]
    ELSE IF HexRun(s, i + 1, 2)
         THEN [group |-> "one_byte", len |-> 3]
    ELSE IF i + 1 <= Len(s) /\ s[i + 1] = 117 /\ HexRun(s, i + 2, 4)
         THEN [group |-> "two_byte", len |-> 6]
    ELSE IF i + 1 <= Len(s) /\ s[i + 1] = 85 /\ HexRun(s, i + 2, 6)
         THEN [group |-> "three_byte", len |-> 8]
    ELSE [group |-> "none", len |-> 0]

\* ESCAPE_PATTERN.finditer: the (0-based) start of the next match at or after
\* the (0-based) offset pos, or -1
NextMatch(s, pos) ==
    LET starts == {i \in pos..(Len(s) - 1) : MatchAt(s, i + 1).len > 0}
    IN IF starts = {} THEN -1
       ELSE CHOOSE i \in starts : \A j \in starts : i <= j

\* string_expander.py:19-31  SPECIAL_ESCAPES, keyed by the character after
\* the backslash
SPECIAL_ESCAPES(c) ==
    CASE c = 97 -> 7
      [] c = 98 -> 8
      [] c = 102 -> 12
      [] c = 110 -> 10
      [] c = 114 -> 13
      [] c = 118 -> 11
      [] c = 116 -> 9
      [] c = 39 -> 39
      [] c = 34 -> 34
      [] c = 92 -> 92
      [] c = 47 -> platform_path_separator

\* the largest argument chr() accepts is 0x10FFFF
MaxCodePoint == 1114111

\* string_expander.py:139-166  process_match: the string it returns, or
\* <<-1>> when chr() raises ValueError
process_match(s, start, m) ==
    LET escape == SubSeq(s, start + 1, start + m.len)
        digits == IF m.group = "one_byte" THEN SubSeq(escape, 2, Len(escape))
                  ELSE SubSeq(escape, 3, Len(escape))
    IN IF m.group = "special" THEN <<SPECIAL_ESCAPES(escape[2])>>
       ELSE IF HexValue(digits) > MaxCodePoint THEN <<-1>>
       ELSE <<HexValue(digits)>>

RECURSIVE Join(_)
\* "".join(parts)
Join(parts) ==
    IF parts = <<>> THEN <<>> ELSE Head(parts) \o Join(Tail(parts))

InitExpand ==
    /\ string \in Strings
    /\ string_parts = <<>>
    /\ prev_end = 0
    /\ exp_pc = "loop"
    /\ expanded = <<>>
    /\ IdleRun /\ IdleEol /\ IdleTypes

\* string_expander.py:129-134  one iteration of the for loop over the matches
ExpandMatch ==
    /\ exp_pc = "loop"
    /\ NextMatch(string, prev_end) # -1
    /\ LET start == NextMatch(string, prev_end)
           m == MatchAt(string, start + 1)
           escaped_version == process_match(string, start, m)
       IN IF escaped_version = <<-1>>
          THEN /\ exp_pc' = "ValueError"
               /\ UNCHANGED <<string_parts, prev_end>>
          ELSE /\ string_parts' =
                     string_parts \o
                        <<SubSeq(string, prev_end + 1, start), escaped_version>>
               /\ prev_end' = start + m.len
               /\ UNCHANGED exp_pc
    /\ UNCHANGED <<string, expanded>>
    /\ UNCHANGED <<runVars, eolVars, infVars, callVars, n_type_vars>>

\* string_expander.py:136  the loop is over: return "".join(string_parts)
ExpandReturn ==
    /\ exp_pc = "loop"
    /\ NextMatch(string, prev_end) = -1
    /\ expanded' = Join(string_parts)
    /\ exp_pc' = "done"
    /\ UNCHANGED <<string, string_parts, prev_end>>
    /\ UNCHANGED <<runVars, eolVars, infVars, callVars, n_type_vars>>

NextExpand == ExpandMatch \/ ExpandReturn

SpecExpand == InitExpand /\ [][NextExpand]_vars

\* C1: for a string with no backslash, expand_string returns the string
\* itself.
C1_PlainStringUnchanged ==
    (exp_pc = "done" /\ Backslash \notin Range(string)) => expanded = string

(***************************************************************************)
(* lex/eol_inference.py                                                    *)
(***************************************************************************)
MaxTokens == 3

\* eol_inference.py:6-7
OPENERS == {"lbracket", "lparen"}
CLOSERS == {"rbracket", "rparen"}

\* eol_inference.py:9-24
VALID_STARTS ==
    {"bslash", "end", "false", "float_", "if_", "integer", "lbracket", "let",
     "lparen", "not_", "name_", "string", "tilde", "true"}

\* eol_inference.py:25-35
VALID_ENDS ==
    {"end", "false", "float_", "integer", "name_", "rbracket", "rparen",
     "string", "true"}

Token(span, type_, value) == [span |-> span, type_ |-> type_, value |-> value]

\* the kinds of token the bounded streams are built from: <<type_, value>>
TokenKinds ==
    { <<"name_", <<"x">>>>, <<"let", None>>, <<"equal", None>>,
      <<"lparen", None>>, <<"rparen", None>>,
      <<"whitespace", <<"\n">>>>, <<"whitespace", <<" ">>>>,
      <<"eol", None>>, <<"eof", None>> }

\* the stream the lexer makes of a list of kinds: token i spans (i-1, i)
StreamOf(kinds) ==
    [i \in 1..Len(kinds) |-> Token(<<i - 1, i>>, kinds[i][1], kinds[i][2])]

Streams == {StreamOf(kinds) : kinds \in SeqsUpTo(TokenKinds, MaxTokens)}

\* TokenStream.preview() when the for loop has consumed n tokens: the next
\* token, or None at the end of the stream
has_preview(s, n) == n < Len(s)
preview(s, n) == IF has_preview(s, n) THEN s[n + 1] ELSE None

\* eol_inference.py:38-70
can_add_eol(prev, current, next_, stack_size) ==
    /\ stack_size = 0
    /\ current.value # None
    /\ "\n" \in Range(current.value)
    /\ prev.type_ \in VALID_ENDS
    /\ next_.type_ \in VALID_STARTS

InitEol ==
    /\ stream \in Streams
    /\ tok_ix = 0
    /\ paren_stack_size = 0
    /\ prev_token = None
    /\ emitted = <<>>
    /\ eol_pc = "start"
    /\ IdleRun /\ IdleExp /\ IdleTypes

\* eol_inference.py:107-111
EolStart ==
    /\ eol_pc = "start"
    /\ IF stream = <<>>
       THEN /\ eol_pc' = "done"
            /\ UNCHANGED <<paren_stack_size, prev_token>>
       ELSE /\ paren_stack_size' = 0
            /\ prev_token' = Token(<<0, 0>>, "eol", None)
            /\ eol_pc' = "loop"
    /\ UNCHANGED <<stream, tok_ix, emitted>>
    /\ UNCHANGED <<runVars, expVars, infVars, callVars, n_type_vars>>

\* a loop that hands the whitespace tokens on with the others
EolStep_KeepsWhitespace ==
    /\ eol_pc = "loop"
    /\ tok_ix < Len(stream)
    /\ LET token == stream[tok_ix + 1]
           next_token == preview(stream, tok_ix + 1)
       IN IF token.type_ = "whitespace"
          THEN /\ emitted' =
                     IF /\ has_preview(stream, tok_ix + 1)
                        /\ can_add_eol(prev_token, token, next_token, paren_stack_size)
                     THEN Append(emitted, Token(token.span, "eol", None))
                     ELSE Append(emitted, token)
               /\ UNCHANGED paren_stack_size
          ELSE /\ paren_stack_size' =
                     IF token.type_ \in OPENERS THEN paren_stack_size + 1
                     ELSE IF token.type_ \in CLOSERS THEN paren_stack_size - 1
                     ELSE paren_stack_size
               /\ emitted' = Append(emitted, token)
    /\ tok_ix' = tok_ix + 1
    /\ UNCHANGED <<stream, prev_token, eol_pc>>
    /\ UNCHANGED <<runVars, expVars, infVars, callVars, n_type_vars>>

\* eol_inference.py:112-125  one iteration of the for loop
EolStep ==
    /\ eol_pc = "loop"
    /\ tok_ix < Len(stream)
    /\ LET token == stream[tok_ix + 1]
           next_token == preview(stream, tok_ix + 1)
       IN IF token.type_ = "whitespace"
          THEN /\ emitted' =
                     IF /\ has_preview(stream, tok_ix + 1)
                        /\ can_add_eol(prev_token, token, next_token, paren_stack_size)
                     THEN Append(emitted, Token(token.span, "eol", None))
                     ELSE emitted
               /\ UNCHANGED paren_stack_size
          ELSE /\ paren_stack_size' =
                     IF token.type_ \in OPENERS THEN paren_stack_size + 1
                     ELSE IF token.type_ \in CLOSERS THEN paren_stack_size - 1
                     ELSE paren_stack_size
               /\ emitted' = Append(emitted, token)
    /\ tok_ix' = tok_ix + 1
    /\ UNCHANGED <<stream, prev_token, eol_pc>>
    /\ UNCHANGED <<runVars, expVars, infVars, callVars, n_type_vars>>

\* an end of insert_eols that looks at the last token it handed on, not at
\* the last token of the stream
EolFinish_LastEmitted ==
    /\ eol_pc = "loop"
    /\ tok_ix = Len(stream)
    /\ emitted' =
          IF emitted # <<>> /\ emitted[Len(emitted)].type_ \notin {"eol", "eof"}
          THEN Append(emitted,
                      Token(<<prev_token.span[2], prev_token.span[2] + 1>>, "eol", None))
          ELSE emitted
    /\ eol_pc' = "done"
    /\ UNCHANGED <<stream, tok_ix, paren_stack_size, prev_token>>
    /\ UNCHANGED <<runVars, expVars, infVars, callVars, n_type_vars>>

\* eol_inference.py:127-130  after the loop
EolFinish ==
    /\ eol_pc = "loop"
    /\ tok_ix = Len(stream)
    /\ emitted' =
          IF stream[tok_ix].type_ \notin {"eol", "eof"}
          THEN Append(emitted,
                      Token(<<prev_token.span[2], prev_token.span[2] + 1>>, "eol", None))
          ELSE emitted
    /\ eol_pc' = "done"
    /\ UNCHANGED <<stream, tok_ix, paren_stack_size, prev_token>>
    /\ UNCHANGED <<runVars, expVars, infVars, callVars, n_type_vars>>

NextEol == EolStart \/ EolStep \/ EolFinish

SpecEol == InitEol /\ [][NextEol]_vars

\* the bracket/paren depth at position i: openers minus closers before i
DepthAt(s, i) ==
    Cardinality({k \in 1..(i - 1) : s[k].type_ \in OPENERS})
      - Cardinality({k \in 1..(i - 1) : s[k].type_ \in CLOSERS})

\* the positions before i that hold a token other than whitespace
NonWsBefore(s, i) == {k \in 1..(i - 1) : s[k].type_ # "whitespace"}

\* whether the whitespace token at position i is a place where the
\* documented rule inserts an eol
EolExpectedAt(s, i) ==
    /\ s[i].type_ = "whitespace"
    /\ s[i].value # None
    /\ "\n" \in Range(s[i].value)
    /\ DepthAt(s, i) = 0
    /\ NonWsBefore(s, i) # {}
    /\ LET k == CHOOSE k \in NonWsBefore(s, i) : \A j \in NonWsBefore(s, i) : j <= k
       IN s[k].type_ \in VALID_ENDS
    /\ i < Len(s)
    /\ s[i + 1].type_ \in VALID_STARTS

\* C2: every whitespace token holding a newline, at depth zero, after a
\* token of VALID_ENDS and before a token of VALID_STARTS, has an eol token
\* with its span in the output of insert_eols.
C2_EolInserted ==
    eol_pc = "done" =>
        \A i \in 1..Len(stream) :
            EolExpectedAt(stream, i) =>
                \E j \in 1..Len(emitted) :
                    emitted[j] = Token(stream[i].span, "eol", None)

(***************************************************************************)
(* type_inferer.py: type terms and substitutions                           *)
(* A type is a tuple headed by the name of its class; spans are left out.  *)
(* A TypeVar is identified by its value, a number drawn from the counter   *)
(* TypeVar.n_type_vars.  A substitution is a Python dict: the sequence of  *)
(* its <<key, value>> items in insertion order.                            *)
(***************************************************************************)
TypeVar(value) == <<"TypeVar", value>>
GenericType(base, args) == <<"GenericType", base, args>>
FuncType(left, right) == <<"FuncType", left, right>>
TypeScheme(actual_type, bound_types) == <<"TypeScheme", actual_type, bound_types>>

IsTypeVar(t) == t[1] = "TypeVar"
IsGenericType(t) == t[1] = "GenericType"
IsFuncType(t) == t[1] = "FuncType"
IsTypeScheme(t) == t[1] = "TypeScheme"

\* an exception, where a type was expected
Error(kind) == <<"Error", kind>>
IsError(x) == Len(x) > 0 /\ x[1] = "Error"

\* the first exception in a list of results, None when there is none
FirstError(results) ==
    LET bad == {i \in 1..Len(results) : IsError(results[i])}
    IN IF bad = {} THEN None
       ELSE results[CHOOSE i \in bad : \A j \in bad : i <= j]

\* dict operations
Keys(d) == {d[i][1] : i \in 1..Len(d)}
Get(d, key) == d[CHOOSE i \in 1..Len(d) : d[i][1] = key][2]

\* left | right
DictUnion(left, right) ==
    [i \in 1..Len(left) |->
        IF left[i][1] \in Keys(right)
        THEN <<left[i][1], Get(right, left[i][1])>>
        ELSE left[i]]
    \o SelectSeq(right, LAMBDA item : item[1] \notin Keys(left))

\* the elements of a set of numbers in increasing order
RECURSIVE SetToSeq(_)
SetToSeq(S) ==
    IF S = {} THEN <<>>
    ELSE LET m == CHOOSE x \in S : \A y \in S : x <= y
         IN <<m>> \o SetToSeq(S \ {m})

RECURSIVE VarChainLoops(_, _, _)
\* type_inferer.py:140-146  whether the recursion of substitute on the
\* variable named value never ends: the chain of variables bound to variables
\* comes back to one it has visited (Python then raises RecursionError)
VarChainLoops(value, sub, seen) ==
    IF value \notin Keys(sub) THEN FALSE
    ELSE LET t == Get(sub, value)
         IN IF ~IsTypeVar(t) \/ t[2] \notin Keys(sub) THEN FALSE
            ELSE IF t[2] \in seen \cup {value} THEN TRUE
            ELSE VarChainLoops(t[2], sub, seen \cup {value})

RECURSIVE substitute(_, _)
\* type_inferer.py:124-166
substitute(type_, sub) ==
    IF IsTypeVar(type_) THEN
        IF VarChainLoops(type_[2], sub, {}) THEN Error("RecursionError")
        ELSE LET found == IF type_[2] \in Keys(sub) THEN Get(sub, type_[2]) ELSE type_
             IN IF IsTypeVar(found) /\ found[2] \in Keys(sub)
                THEN substitute(found, sub)
                ELSE found
    ELSE IF IsGenericType(type_) THEN
        LET args == [i \in 1..Len(type_[3]) |-> substitute(type_[3][i], sub)]
        IN IF FirstError(args) # None THEN FirstError(args)
           ELSE GenericType(type_[2], args)
    ELSE IF IsFuncType(type_) THEN
        LET sides == <<substitute(type_[2], sub), substitute(type_[3], sub)>>
        IN IF FirstError(sides) # None THEN FirstError(sides)
           ELSE FuncType(sides[1], sides[2])
    ELSE IF IsTypeScheme(type_) THEN
        LET new_sub == SelectSeq(sub, LAMBDA item : item[1] \notin type_[3])
            actual == substitute(type_[2], new_sub)
        IN IF IsError(actual) THEN actual
           ELSE TypeScheme(actual, type_[3])
    ELSE Error("TypeError")

\* type_inferer.py:15-19  the items of _self_substitute(substitution), some
\* of them an exception when substitute raises
self_substitute_items(sub) ==
    LET kept == SelectSeq(sub, LAMBDA item : item[2] # None)
    IN [i \in 1..Len(kept) |-> <<kept[i][1], substitute(kept[i][2], sub)>>]

\* type_inferer.py:15-19
_self_substitute(sub) ==
    LET items == self_substitute_items(sub)
        values == [i \in 1..Len(items) |-> items[i][2]]
    IN IF FirstError(values) # None THEN FirstError(values) ELSE items

\* an instantiate that hands a type scheme on as it is
instantiate_kept(type_, n) == [type_ |-> type_, n |-> n]

\* an instantiate whose variables are not counted: the next call hands out
\* the same ones
instantiate_uncounted(type_, n) ==
    IF IsTypeScheme(type_)
    THEN LET bound == SetToSeq(type_[3])
             inst == [i \in 1..Len(bound) |-> <<bound[i], TypeVar(n + i)>>]
         IN [type_ |-> substitute(type_[2], inst), n |-> n]
    ELSE [type_ |-> type_, n |-> n]

\* type_inferer.py:169-188  the instantiated type and the counter after it
instantiate(type_, n) ==
    IF IsTypeScheme(type_)
    THEN LET bound == SetToSeq(type_[3])
             inst == [i \in 1..Len(bound) |-> <<bound[i], TypeVar(n + i)>>]
         IN [type_ |-> substitute(type_[2], inst), n |-> n + Len(bound)]
    ELSE [type_ |-> type_, n |-> n]

RECURSIVE is_type(_)
\* whether every part of type_ is of one of the four classes of ast.Type;
\* find_free_vars raises TypeError at a part that is not (type_inferer.py:234)
is_type(type_) ==
    IF IsTypeVar(type_) THEN TRUE
    ELSE IF IsGenericType(type_) THEN \A i \in 1..Len(type_[3]) : is_type(type_[3][i])
    ELSE IF IsFuncType(type_) THEN is_type(type_[2]) /\ is_type(type_[3])
    ELSE IF IsTypeScheme(type_) THEN is_type(type_[2])
    ELSE FALSE

RECURSIVE find_free_vars(_)
\* type_inferer.py:212-234  the values of the free variables of a type for
\* which is_type holds
find_free_vars(type_) ==
    IF IsTypeVar(type_) THEN {type_[2]}
    ELSE IF IsGenericType(type_) THEN
        UNION {find_free_vars(type_[3][i]) : i \in 1..Len(type_[3])}
    ELSE IF IsFuncType(type_) THEN
        find_free_vars(type_[2]) \cup find_free_vars(type_[3])
    ELSE find_free_vars(type_[2]) \ type_[3]

\* TypeScheme.fold: a scheme around a scheme is merged into one scheme over
\* the union of the bound variables
fold(scheme) ==
    IF IsTypeScheme(scheme[2])
    THEN TypeScheme(scheme[2][2], scheme[3] \cup scheme[2][3])
    ELSE scheme

\* a generalise that wraps the type without folding the scheme it builds
generalise_unfolded(type_) ==
    IF ~is_type(type_) THEN Error("TypeError")
    ELSE IF find_free_vars(type_) # {}
         THEN TypeScheme(type_, find_free_vars(type_))
    ELSE type_

\* type_inferer.py:191-209
generalise(type_) ==
    IF ~is_type(type_) THEN Error("TypeError")
    ELSE IF find_free_vars(type_) # {}
         THEN fold(TypeScheme(type_, find_free_vars(type_)))
    ELSE type_

(***************************************************************************)
(* type_inferer.py: unification.  A call returns the exception it raised   *)
(* ("none" when it returned), the substitution and the counter after it.   *)
(***************************************************************************)
Return(sub, n) == [err |-> "none", sub |-> sub, n |-> n]
Raise(kind, n) == [err |-> kind, sub |-> <<>>, n |-> n]

\* type_inferer.py:82-91
_unify_type_vars(left, right, n) ==
    IF IsTypeVar(left) /\ IsTypeVar(right) /\ left[2] = right[2]
    THEN Return(<<>>, n)
    ELSE IF IsTypeVar(left) THEN Return(<< <<left[2], right>> >>, n)
    ELSE IF IsTypeVar(right) THEN Return(<< <<right[2], left>> >>, n)
    ELSE Raise("TypeMismatchError", n)

\* the rest of a function after a call: the exception the call raised
\* propagates, otherwise the function goes on with what the call returned
Bind(result, Rest(_)) == IF result.err # "none" THEN result ELSE Rest(result)

RECURSIVE unify(_, _, _)
RECURSIVE _unify_generics_loop(_, _, _, _, _)
RECURSIVE _unify_func_types(_, _, _)
RECURSIVE _unify_func_rights(_, _, _)
RECURSIVE _merge_subs(_, _, _)
RECURSIVE solve_conflicts(_, _, _, _)

\* type_inferer.py:115-119  the conflicting pairs, in the order of left's keys
conflicts(left, right) ==
    LET items == SelectSeq(left,
                     LAMBDA item : /\ item[1] \in Keys(right)
                                   /\ item[2] # Get(right, item[1]))
    IN [i \in 1..Len(items) |-> <<items[i][2], Get(right, items[i][1])>>]

\* type_inferer.py:120  reduce(_merge_subs, star_map(unify, conflicts.values()), {})
\* from the i-th pair on, solved being the value accumulated so far
solve_conflicts(pairs, i, solved, n) ==
    IF i > Len(pairs) THEN Return(solved, n)
    ELSE Bind(unify(pairs[i][1], pairs[i][2], n), LAMBDA unified :
         Bind(_merge_subs(solved, unified.sub, unified.n), LAMBDA merged :
         solve_conflicts(pairs, i + 1, merged.sub, merged.n)))

\* type_inferer.py:114-121
_merge_subs(left, right, n) ==
    Bind(solve_conflicts(conflicts(left, right), 1, <<>>, n), LAMBDA solved :
    Return(DictUnion(DictUnion(left, right), solved.sub), solved.n))

\* type_inferer.py:98-102  the loop over zip(left.args, right.args) from the
\* i-th pair on
_unify_generics_loop(left, right, i, sub, n) ==
    IF i > Len(left[3]) THEN Return(sub, n)
    ELSE Bind(unify(left[3][i], right[3][i], n), LAMBDA result :
         Bind(_merge_subs(sub, result.sub, result.n), LAMBDA merged :
         _unify_generics_loop(left, right, i + 1, merged.sub, merged.n)))

\* a unifier of generics that compares the numbers of arguments only
_unify_generics_any_base(left, right, n) ==
    IF Len(left[3]) # Len(right[3])
    THEN Raise("TypeMismatchError", n)
    ELSE _unify_generics_loop(left, right, 1, <<>>, n)

\* type_inferer.py:94-102
_unify_generics(left, right, n) ==
    IF left[2] # right[2] \/ Len(left[3]) # Len(right[3])
    THEN Raise("TypeMismatchError", n)
    ELSE _unify_generics_loop(left, right, 1, <<>>, n)

\* type_inferer.py:107-111  right_sub = unify(substitute(left.right, left_sub),
\* substitute(right.right, left_sub)); return _merge_subs(left_sub, right_sub)
\* with l and r the two substituted types
_unify_func_rights(l, r, left_sub) ==
    IF IsError(l) THEN Raise(l[2], left_sub.n)
    ELSE IF IsError(r) THEN Raise(r[2], left_sub.n)
    ELSE Bind(unify(l, r, left_sub.n), LAMBDA right_sub :
         _merge_subs(left_sub.sub, right_sub.sub, right_sub.n))

\* type_inferer.py:105-111
_unify_func_types(left, right, n) ==
    Bind(unify(left[2], right[2], n), LAMBDA left_sub :
    _unify_func_rights(substitute(left[3], left_sub.sub),
                       substitute(right[3], left_sub.sub), left_sub))

\* type_inferer.py:51-79
unify(left, right, n) ==
    LET il == instantiate(left, n)
        ir == instantiate(right, il.n)
    IN IF IsError(il.type_) THEN Raise(il.type_[2], il.n)
       ELSE IF IsError(ir.type_) THEN Raise(ir.type_[2], ir.n)
       ELSE IF IsTypeVar(il.type_) \/ IsTypeVar(ir.type_)
            THEN _unify_type_vars(il.type_, ir.type_, ir.n)
       ELSE IF IsGenericType(il.type_) /\ IsGenericType(ir.type_)
            THEN _unify_generics(il.type_, ir.type_, ir.n)
       ELSE IF IsFuncType(il.type_) /\ IsFuncType(ir.type_)
            THEN _unify_func_types(il.type_, ir.type_, ir.n)
       ELSE Raise("TypeMismatchError", ir.n)

(***************************************************************************)
(* Direct calls of unify on bounded types                                  *)
(***************************************************************************)
MaxTypeVars == 2

IntType == GenericType("Int", <<>>)
BoolType == GenericType("Bool", <<>>)

TypeAtoms == {TypeVar(i) : i \in 1..MaxTypeVars} \cup {IntType, BoolType}

\* the types the calls are made on: atoms, one constructor over atoms, and
\* two type schemes
CallTypes ==
    TypeAtoms
    \cup {FuncType(a, b) : a \in TypeAtoms, b \in TypeAtoms}
    \cup {GenericType("List", <<a>>) : a \in TypeAtoms}
    \cup {GenericType("Tuple", <<a, b>>) : a \in TypeAtoms, b \in TypeAtoms}
    \cup {TypeScheme(FuncType(TypeVar(1), TypeVar(1)), {1}),
          TypeScheme(FuncType(TypeVar(1), TypeVar(2)), {1})}

InitCall ==
    /\ call_args \in {<<"unify", l, r>> : l \in CallTypes, r \in CallTypes}
    /\ call_pc = "call"
    /\ call_result = None
    /\ n_type_vars = MaxTypeVars
    /\ IdleRun /\ IdleExp /\ IdleEol /\ IdleInf

\* type_inferer.py:51-79  unify(left, right) is called and returns or raises
CallUnify ==
    /\ call_pc = "call"
    /\ call_args[1] = "unify"
    /\ LET result == unify(call_args[2], call_args[3], n_type_vars)
       IN /\ call_result' = [err |-> result.err, sub |-> result.sub]
          /\ n_type_vars' = result.n
    /\ call_pc' = "done"
    /\ UNCHANGED call_args
    /\ UNCHANGED <<runVars, expVars, eolVars, infVars>>

NextCall == CallUnify

SpecCall == InitCall /\ [][NextCall]_vars

\* C3: unify of a type variable with a type that is not a variable and in
\* which the variable occurs, in either order, raises TypeMismatchError.
C3_OccursCheck ==
    (call_pc = "done" /\ call_args[1] = "unify") =>
        \A a \in 1..MaxTypeVars :
            LET var == TypeVar(a)
                other == IF call_args[2] = var THEN call_args[3] ELSE call_args[2]
            IN (/\ var \in {call_args[2], call_args[3]}
                /\ ~IsTypeVar(other)
                /\ a \in find_free_vars(other))
               => call_result.err = "TypeMismatchError"

(***************************************************************************)
(* type_inferer.py: the AST and the three visitors of infer_types.         *)
(* A node is a tuple <<class, type_, fields...>>; spans are left out.      *)
(***************************************************************************)
Scalar(type_, scalar_type) == <<"Scalar", type_, scalar_type>>
Name(type_, value) == <<"Name", type_, value>>
Vector(type_, vec_type, elements) == <<"Vector", type_, vec_type, elements>>
Cond(type_, pred, cons, else_) == <<"Cond", type_, pred, cons, else_>>
Function(type_, param, body) == <<"Function", type_, param, body>>
FuncCall(type_, caller, callee) == <<"FuncCall", type_, caller, callee>>
Define(type_, target, value, body) == <<"Define", type_, target, value, body>>
Block(type_, body) == <<"Block", type_, body>>

\* node with its type_ attribute set
SetType(node, type_) == [node EXCEPT ![2] = type_]

\* the variable the k-th call of TypeVar.unknown returns when the counter
\* was n before the first
Fresh(n, k) == TypeVar(n + k)

RECURSIVE insert(_, _)
RECURSIVE insert_all(_, _)

\* [expr.visit(self) for expr in nodes]: the new nodes and the counter
insert_all(nodes, n) ==
    IF nodes = <<>> THEN [nodes |-> <<>>, n |-> n]
    ELSE LET first == insert(Head(nodes), n)
             rest == insert_all(Tail(nodes), first.n)
         IN [nodes |-> <<first.node>> \o rest.nodes, n |-> rest.n]

\* type_inferer.py:300-303  visit_vector for a Vector of type TUPLE: the
\* node gets a new variable and is returned, its elements are not visited
insert_tuple(node, n) ==
    [node |-> SetType(node, Fresh(n, 1)), n |-> n + 1]

\* type_inferer.py:237-315  _Inserter: the annotated node and the counter
insert(node, n) ==
    IF node[1] = "Block" THEN
        LET body == insert_all(node[3], n)
        IN [node |-> Block(Fresh(body.n, 1), body.nodes), n |-> body.n + 1]
    ELSE IF node[1] = "Cond" THEN
        LET parts == insert_all(<<node[3], node[4], node[5]>>, n)
        IN [node |-> Cond(Fresh(parts.n, 1), parts.nodes[1], parts.nodes[2],
                          parts.nodes[3]),
            n |-> parts.n + 1]
    ELSE IF node[1] = "Define" THEN
        LET parts == insert_all(<<node[3], node[4]>>, n)
            body == IF node[5] = None THEN [node |-> None, n |-> parts.n]
                    ELSE insert(node[5], parts.n)
        IN [node |-> Define(Fresh(body.n, 1), parts.nodes[1], parts.nodes[2],
                            body.node),
            n |-> body.n + 1]
    ELSE IF node[1] = "FuncCall" THEN
        LET parts == insert_all(<<node[3], node[4]>>, n)
        IN [node |-> FuncCall(Fresh(parts.n, 1), parts.nodes[1], parts.nodes[2]),
            n |-> parts.n + 1]
    ELSE IF node[1] = "Function" THEN
        LET parts == insert_all(<<node[3], node[4]>>, n)
        IN [node |-> Function(FuncType(Fresh(parts.n, 1), Fresh(parts.n, 2)),
                              parts.nodes[1], parts.nodes[2]),
            n |-> parts.n + 2]
    ELSE IF node[1] \in {"Name", "Scalar"} THEN
        [node |-> SetType(node, Fresh(n, 1)), n |-> n + 1]
    ELSE IF node[3] = "TUPLE" THEN
        insert_tuple(node, n)
    ELSE
        LET elements == insert_all(node[4], n)
        IN [node |-> Vector(GenericType("List", <<Fresh(elements.n, 1)>>),
                            "LIST", elements.nodes),
            n |-> elements.n + 1]

(***************************************************************************)
(* Scope (scope.py is not part of the sources): a stack of mappings from a *)
(* name to a type, the current scope last; the first entry is the table of *)
(* the built-in operators.                                                 *)
(***************************************************************************)
\* + : forall a. a -> a -> a
DEFAULT_OPERATOR_TYPES ==
    ("+" :> TypeScheme(FuncType(TypeVar(0), FuncType(TypeVar(0), TypeVar(0))), {0}))

\* Scope(parent)
ScopePush(scopes) == Append(scopes, <<>>)

\* current_scope.parent
ScopePop(scopes) == SubSeq(scopes, 1, Len(scopes) - 1)

\* name in current_scope: bound in the current scope itself
ScopeContains(scopes, name) == name \in DOMAIN scopes[Len(scopes)]

\* whether the lookup of name finds a binding in the scope or its parents
ScopeBound(scopes, name) == \E i \in 1..Len(scopes) : name \in DOMAIN scopes[i]

\* current_scope[name]: the innermost binding
ScopeGet(scopes, name) ==
    LET levels == {i \in 1..Len(scopes) : name \in DOMAIN scopes[i]}
        top == CHOOSE i \in levels : \A j \in levels : j <= i
    IN scopes[top][name]

\* current_scope[name] = type_
ScopeSet(scopes, name, type_) ==
    [scopes EXCEPT ![Len(scopes)] =
        [k \in (DOMAIN @) \cup {name} |-> IF k = name THEN type_ ELSE @[k]]]

(***************************************************************************)
(* _EquationGenerator.  Its state g: the equations, the scope stack, the   *)
(* counter and the exception raised ("none" while it runs).                *)
(***************************************************************************)
\* type_inferer.py:337-339
NewGenerator(n) ==
    [equations |-> <<>>,
     current_scope |-> ScopePush(<<DEFAULT_OPERATOR_TYPES>>),
     n |-> n,
     err |-> "none"]

\* type_inferer.py:341-342
_push(g, eqs) == [g EXCEPT !.equations = @ \o eqs]

\* type_inferer.py:402-410  the name of the type of a scalar
ScalarTypeName(scalar_type) ==
    CASE scalar_type = "BOOL" -> "Bool"
      [] scalar_type = "FLOAT" -> "Float"
      [] scalar_type = "INTEGER" -> "Int"
      [] scalar_type = "STRING" -> "String"

RECURSIVE generate(_, _)
RECURSIVE generate_all(_, _)
RECURSIVE generate_list(_, _, _)

\* the visits of the nodes of a list in order, up to the first that raises
generate_all(nodes, g) ==
    IF nodes = <<>> \/ g.err # "none" THEN [nodes |-> nodes, g |-> g]
    ELSE LET first == generate(Head(nodes), g)
             rest == generate_all(Tail(nodes), first.g)
         IN [nodes |-> <<first.node>> \o rest.nodes, g |-> rest.g]

\* type_inferer.py:432-434  the loop of visit_vector over the elements of a
\* LIST: each element is visited and then equated with elem_type
generate_list(nodes, elem_type, g) ==
    IF nodes = <<>> \/ g.err # "none" THEN [nodes |-> nodes, g |-> g]
    ELSE LET first == generate(Head(nodes), g)
             pushed == IF first.g.err # "none" THEN first.g
                       ELSE _push(first.g, << <<first.node[2], elem_type>> >>)
             rest == generate_list(Tail(nodes), elem_type, pushed)
         IN [nodes |-> <<first.node>> \o rest.nodes, g |-> rest.g]

\* type_inferer.py:363-379  visit_define
generate_define(node, g) ==
    LET value == generate(node[4], g)
    IN IF value.g.err # "none"
       THEN [node |-> [node EXCEPT ![4] = value.node], g |-> value.g]
       ELSE
        LET general == generalise(value.node[2])
        IN IF IsError(general)
           THEN [node |-> [node EXCEPT ![4] = value.node],
                 g |-> [value.g EXCEPT !.err = general[2]]]
           ELSE
            LET new_value == SetType(value.node, general)
                target == node[3]
                g1 == _push(value.g, << <<node[2], general>>, <<node[2], target[2]>> >>)
                g2 == IF ScopeContains(g1.current_scope, target[3])
                      THEN _push(g1, << <<target[2], ScopeGet(g1.current_scope, target[3])>> >>)
                      ELSE g1
            IN IF node[5] = None
               THEN [node |-> [node EXCEPT ![4] = new_value],
                     g |-> [g2 EXCEPT !.current_scope =
                                ScopeSet(@, target[3], target[2])]]
               ELSE
                LET g3 == [g2 EXCEPT !.current_scope =
                                ScopeSet(ScopePush(@), target[3], target[2])]
                    body == generate(node[5], g3)
                IN [node |-> [node EXCEPT ![4] = new_value, ![5] = body.node],
                    g |-> IF body.g.err # "none" THEN body.g
                          ELSE [body.g EXCEPT !.current_scope = ScopePop(@)]]

\* type_inferer.py:415-439  visit_vector
generate_vector(node, g) ==
    IF node[3] = "TUPLE" THEN
        LET elements == generate_all(node[4], g)
            args == [i \in 1..Len(elements.nodes) |-> elements.nodes[i][2]]
            actual == IF args # <<>> THEN GenericType("Tuple", args)
                      ELSE GenericType("Unit", <<>>)
            new_node == [node EXCEPT ![4] = elements.nodes]
        IN [node |-> new_node,
            g |-> IF elements.g.err # "none" THEN elements.g
                  ELSE _push(elements.g, << <<node[2], actual>> >>)]
    ELSE
        LET elem_type == Fresh(g.n, 1)
            actual == GenericType("List", <<elem_type>>)
            elements == generate_list(node[4], elem_type, [g EXCEPT !.n = @ + 1])
            new_node == [node EXCEPT ![4] = elements.nodes]
        IN [node |-> new_node,
            g |-> IF elements.g.err # "none" THEN elements.g
                  ELSE _push(elements.g, << <<node[2], actual>> >>)]

\* type_inferer.py:318-439  _EquationGenerator: the node after the visit (the
\* visit of a Define changes the type_ of its value) and the generator after it
generate(node, g) ==
    IF g.err # "none" THEN [node |-> node, g |-> g]
    ELSE IF node[1] = "Block" THEN
        LET body == generate_all(node[3], [g EXCEPT !.current_scope = ScopePush(@)])
            last == body.nodes[Len(body.nodes)]
        IN [node |-> [node EXCEPT ![3] = body.nodes],
            g |-> IF body.g.err # "none" THEN body.g
                  ELSE [_push(body.g, << <<node[2], last[2]>> >>)
                            EXCEPT !.current_scope = ScopePop(@)]]
    ELSE IF node[1] = "Cond" THEN
        LET parts == generate_all(<<node[3], node[4], node[5]>>, g)
            new_node == [node EXCEPT ![3] = parts.nodes[1], ![4] = parts.nodes[2],
                                     ![5] = parts.nodes[3]]
        IN [node |-> new_node,
            g |-> IF parts.g.err # "none" THEN parts.g
                  ELSE _push(parts.g,
                             << <<new_node[3][2], GenericType("Bool", <<>>)>>,
                                <<node[2], new_node[4][2]>>,
                                <<node[2], new_node[5][2]>> >>)]
    ELSE IF node[1] = "Define" THEN generate_define(node, g)
    ELSE IF node[1] = "Function" THEN
        LET param == node[3]
            g1 == [g EXCEPT !.current_scope = ScopeSet(ScopePush(@), param[3], param[2])]
            body == generate(node[4], g1)
        IN [node |-> [node EXCEPT ![4] = body.node],
            g |-> IF body.g.err # "none" THEN body.g
                  ELSE _push([body.g EXCEPT !.current_scope = ScopePop(@)],
                             << <<node[2], FuncType(param[2], body.node[2])>> >>)]
    ELSE IF node[1] = "FuncCall" THEN
        LET parts == generate_all(<<node[3], node[4]>>, g)
            new_node == [node EXCEPT ![3] = parts.nodes[1], ![4] = parts.nodes[2]]
        IN [node |-> new_node,
            g |-> IF parts.g.err # "none" THEN parts.g
                  ELSE _push(parts.g,
                             << <<new_node[3][2],
                                  FuncType(new_node[4][2], node[2])>> >>)]
    ELSE IF node[1] = "Name" THEN
        [node |-> node,
         g |-> IF ScopeBound(g.current_scope, node[3])
               THEN _push(g, << <<node[2], ScopeGet(g.current_scope, node[3])>> >>)
               ELSE [g EXCEPT !.err = "UndefinedNameError"]]
    ELSE IF node[1] = "Scalar" THEN
        [node |-> node,
         g |-> _push(g, << <<node[2], GenericType(ScalarTypeName(node[3]), <<>>)>> >>)]
    ELSE generate_vector(node, g)


(***************************************************************************)
(* _Substitutor: the tree with the substitution applied, or the exception  *)
(* substitute or generalise raised                                         *)
(***************************************************************************)
RECURSIVE apply(_, _)

\* [expr.visit(self) for expr in nodes]
apply_all(nodes, sub) == [i \in 1..Len(nodes) |-> apply(nodes[i], sub)]

\* node.type_ = substitute(node.type_, self.substitution), the children
\* already visited
apply_type(node, children, sub) ==
    IF FirstError(children) # None THEN FirstError(children)
    ELSE LET type_ == substitute(node[2], sub)
         IN IF IsError(type_) THEN type_ ELSE SetType(node, type_)

\* node.type_ = generalise(substitute(node.type_, self.substitution))
apply_general_type(node, children, sub) ==
    IF FirstError(children) # None THEN FirstError(children)
    ELSE LET type_ == substitute(node[2], sub)
         IN IF IsError(type_) THEN type_
            ELSE IF IsError(generalise(type_)) THEN generalise(type_)
            ELSE SetType(node, generalise(type_))

\* type_inferer.py:442-501
apply(node, sub) ==
    IF node[1] = "Block" THEN
        LET body == apply_all(node[3], sub)
        IN apply_type([node EXCEPT ![3] = body], body, sub)
    ELSE IF node[1] = "Cond" THEN
        LET parts == apply_all(<<node[3], node[4], node[5]>>, sub)
        IN apply_type([node EXCEPT ![3] = parts[1], ![4] = parts[2], ![5] = parts[3]],
                      parts, sub)
    ELSE IF node[1] = "Define" THEN
        \* the body of the Define is not visited
        LET parts == apply_all(<<node[3], node[4]>>, sub)
        IN apply_general_type([node EXCEPT ![3] = parts[1], ![4] = parts[2]],
                              parts, sub)
    ELSE IF node[1] = "FuncCall" THEN
        LET parts == apply_all(<<node[3], node[4]>>, sub)
        IN apply_type([node EXCEPT ![3] = parts[1], ![4] = parts[2]], parts, sub)
    ELSE IF node[1] = "Function" THEN
        LET parts == apply_all(<<node[3], node[4]>>, sub)
        IN apply_general_type([node EXCEPT ![3] = parts[1], ![4] = parts[2]],
                              parts, sub)
    ELSE IF node[1] \in {"Name", "Scalar"} THEN
        apply_type(node, <<>>, sub)
    ELSE
        LET elements == apply_all(node[4], sub)
        IN apply_type([node EXCEPT ![4] = elements], elements, sub)

(***************************************************************************)
(* The programs infer_types is run on: trees as the parser builds them,    *)
(* every type_ still None                                                  *)
(***************************************************************************)
MaxElems == 2

\* ast.ScalarTypes
ScalarTypes == {"BOOL", "FLOAT", "INTEGER", "STRING"}
Scalars == {Scalar(None, k) : k \in ScalarTypes}

x_ == Name(None, "x")
id_ == Name(None, "id")
identity == Function(None, x_, x_)
Tuple(elements) == Vector(None, "TUPLE", elements)
List(elements) == Vector(None, "LIST", elements)
Call(caller, callee) == FuncCall(None, caller, callee)

\* let id = \x -> x in (id s1, id s2)
LetPoly(s1, s2) == Define(None, id_, identity, Tuple(<<Call(id_, s1), Call(id_, s2)>>))

Programs ==
    Scalars
    \cup {Tuple(es) : es \in SeqsUpTo(Scalars, MaxElems)}
    \cup {List(es) : es \in SeqsUpTo(Scalars, MaxElems)}
    \cup {Cond(None, p, c, e) : p \in Scalars, c \in Scalars, e \in Scalars}
    \cup {Function(None, x_, b) :
            b \in Scalars \cup {x_, Name(None, "y"), Call(x_, x_), Tuple(<<x_, x_>>),
                               List(<<x_, x_>>)}
                  \cup {Call(x_, s) : s \in Scalars}}
    \cup {Call(identity, s) : s \in Scalars}
    \cup {Call(Call(Name(None, "+"), s1), s2) : s1 \in Scalars, s2 \in Scalars}
    \cup {LetPoly(s1, s2) : s1 \in Scalars, s2 \in Scalars}
    \cup {Define(None, id_, identity, Call(id_, s)) : s \in Scalars}
    \cup {Define(None, id_, identity, List(<<Call(id_, s1), Call(id_, s2)>>)) :
            s1 \in Scalars, s2 \in Scalars}
    \cup {Define(None, x_, Call(x_, x_), None)}
    \cup {Function(None, x_, Define(None, id_, identity, None)),
          List(<<Define(None, id_, identity, None)>>)}
    \cup {Block(None, <<Define(None, id_, identity, None), Call(id_, s1), Call(id_, s2)>>) :
            s1 \in Scalars, s2 \in Scalars}
    \cup {Block(None, <<Define(None, x_, s1, None), Define(None, x_, s2, None), x_>>) :
            s1 \in Scalars, s2 \in Scalars}

(***************************************************************************)
(* infer_types, one step per statement                                     *)
(***************************************************************************)
InitInfer ==
    /\ tree \in Programs
    /\ equations = <<>>
    /\ eq_ix = 0
    /\ substitution = <<>>
    /\ inf_pc = "insert"
    /\ inf_error = None
    /\ n_type_vars = 0
    /\ IdleRun /\ IdleExp /\ IdleEol /\ IdleCall

\* type_inferer.py:41-43  tree = inserter.run(tree)
InferInsert ==
    /\ inf_pc = "insert"
    /\ LET inserted == insert(tree, n_type_vars)
       IN /\ tree' = inserted.node
          /\ n_type_vars' = inserted.n
    /\ inf_pc' = "generate"
    /\ UNCHANGED <<equations, eq_ix, substitution, inf_error>>
    /\ UNCHANGED <<runVars, expVars, eolVars, callVars>>

\* type_inferer.py:42-44  generator.run(tree)
InferGenerate ==
    /\ inf_pc = "generate"
    /\ LET generated == generate(tree, NewGenerator(n_type_vars))
       IN /\ tree' = generated.node
          /\ equations' = generated.g.equations
          /\ n_type_vars' = generated.g.n
          /\ IF generated.g.err # "none"
             THEN inf_pc' = "raised" /\ inf_error' = Error(generated.g.err)
             ELSE inf_pc' = "solve" /\ UNCHANGED inf_error
    /\ UNCHANGED <<eq_ix, substitution>>
    /\ UNCHANGED <<runVars, expVars, eolVars, callVars>>

\* type_inferer.py:46  _merge_subs(substitution, unify(*equation))
solve_equation(equation, sub, n) ==
    Bind(unify(equation[1], equation[2], n), LAMBDA unified :
    _merge_subs(sub, unified.sub, unified.n))

\* type_inferer.py:46  one step of reduce(_merge_subs, star_map(unify,
\* generator.equations), {}): the next equation is unified and the result
\* merged into the substitution
InferSolve ==
    /\ inf_pc = "solve"
    /\ eq_ix < Len(equations)
    /\ LET merged == solve_equation(equations[eq_ix + 1], substitution, n_type_vars)
       IN /\ n_type_vars' = merged.n
          /\ IF merged.err # "none"
             THEN /\ inf_pc' = "raised"
                  /\ inf_error' = Error(merged.err)
                  /\ UNCHANGED <<substitution, eq_ix>>
             ELSE /\ substitution' = merged.sub
                  /\ eq_ix' = eq_ix + 1
                  /\ UNCHANGED <<inf_pc, inf_error>>
    /\ UNCHANGED <<tree, equations>>
    /\ UNCHANGED <<runVars, expVars, eolVars, callVars>>

\* type_inferer.py:47  substitution = _self_substitute(substitution)
InferClose ==
    /\ inf_pc = "solve"
    /\ eq_ix = Len(equations)
    /\ LET closed == _self_substitute(substitution)
       IN IF IsError(closed)
          THEN /\ inf_pc' = "raised"
               /\ inf_error' = closed
               /\ UNCHANGED substitution
          ELSE /\ substitution' = closed
               /\ inf_pc' = "substitute"
               /\ UNCHANGED inf_error
    /\ UNCHANGED <<tree, equations, eq_ix, n_type_vars>>
    /\ UNCHANGED <<runVars, expVars, eolVars, callVars>>

\* type_inferer.py:48  return _Substitutor(substitution).run(tree)
InferSubstitute ==
    /\ inf_pc = "substitute"
    /\ LET applied == apply(tree, substitution)
       IN IF IsError(applied)
          THEN /\ inf_pc' = "raised"
               /\ inf_error' = applied
               /\ UNCHANGED tree
          ELSE /\ tree' = applied
               /\ inf_pc' = "done"
               /\ UNCHANGED inf_error
    /\ UNCHANGED <<equations, eq_ix, substitution, n_type_vars>>
    /\ UNCHANGED <<runVars, expVars, eolVars, callVars>>

NextInfer == InferInsert \/ InferGenerate \/ InferSolve \/ InferClose \/ InferSubstitute

SpecInfer == InitInfer /\ [][NextInfer]_vars

(***************************************************************************)
(* Properties of infer_types                                               *)
(***************************************************************************)
RECURSIVE Erase(_)
\* the program a tree was built from: the tree with every type_ set to None
Erase(node) ==
    IF node = None THEN None
    ELSE IF node[1] = "Vector" THEN
        Vector(None, node[3], [i \in 1..Len(node[4]) |-> Erase(node[4][i])])
    ELSE IF node[1] = "Cond" THEN
        Cond(None, Erase(node[3]), Erase(node[4]), Erase(node[5]))
    ELSE IF node[1] = "Function" THEN Function(None, Erase(node[3]), Erase(node[4]))
    ELSE IF node[1] = "FuncCall" THEN FuncCall(None, Erase(node[3]), Erase(node[4]))
    ELSE IF node[1] = "Define" THEN
        Define(None, Erase(node[3]), Erase(node[4]), Erase(node[5]))
    ELSE IF node[1] = "Block" THEN
        Block(None, [i \in 1..Len(node[3]) |-> Erase(node[3][i])])
    ELSE SetType(node, None)

RECURSIVE Nodes(_)
\* every node of a tree
Nodes(node) ==
    IF node = None THEN {}
    ELSE {node} \cup
         (IF node[1] = "Vector" THEN UNION {Nodes(node[4][i]) : i \in 1..Len(node[4])}
          ELSE IF node[1] = "Cond" THEN Nodes(node[3]) \cup Nodes(node[4]) \cup Nodes(node[5])
          ELSE IF node[1] \in {"Function", "FuncCall"} THEN Nodes(node[3]) \cup Nodes(node[4])
          ELSE IF node[1] = "Define" THEN Nodes(node[3]) \cup Nodes(node[4]) \cup Nodes(node[5])
          ELSE IF node[1] = "Block" THEN UNION {Nodes(node[3][i]) : i \in 1..Len(node[3])}
          ELSE {})

\* infer_types has solved every equation and closed the substitution
Solved == inf_pc \in {"substitute", "done"}

StringType == GenericType("String", <<>>)

\* let id = \x -> x in (id 1, id "a")
LetPolyProgram == LetPoly(Scalar(None, "INTEGER"), Scalar(None, "STRING"))

\* C4: on let id = \x -> x in (id 1, id "a") infer_types does not raise, and
\* when it has returned the call id 1 has the type Int and the call id "a"
\* the type String.
C4_LetPolymorphism ==
    Erase(tree) = LetPolyProgram =>
        /\ inf_pc # "raised"
        /\ inf_pc = "done" =>
            /\ tree[5][4][1][2] = IntType
            /\ tree[5][4][2][2] = StringType

RECURSIVE strip_schemes(_)
\* a type without its quantifiers, the bound variables left as variables
strip_schemes(type_) ==
    IF IsTypeScheme(type_) THEN strip_schemes(type_[2])
    ELSE IF IsFuncType(type_) THEN
        FuncType(strip_schemes(type_[2]), strip_schemes(type_[3]))
    ELSE IF IsGenericType(type_) THEN
        GenericType(type_[2], [i \in 1..Len(type_[3]) |-> strip_schemes(type_[3][i])])
    ELSE type_

RECURSIVE Flatten(_)
Flatten(seqs) == IF seqs = <<>> THEN <<>> ELSE Head(seqs) \o Flatten(Tail(seqs))

RECURSIVE vars_in_order(_)
\* the values of the variables of a type without quantifiers, left to right
vars_in_order(type_) ==
    IF IsTypeVar(type_) THEN <<type_[2]>>
    ELSE IF IsFuncType(type_) THEN vars_in_order(type_[2]) \o vars_in_order(type_[3])
    ELSE IF IsGenericType(type_) THEN
        Flatten([i \in 1..Len(type_[3]) |-> vars_in_order(type_[3][i])])
    ELSE <<>>

RECURSIVE rename(_, _)
\* each variable renamed to the position of its first occurrence in order
rename(type_, order) ==
    IF IsTypeVar(type_) THEN
        TypeVar(CHOOSE i \in 1..Len(order) :
                    /\ order[i] = type_[2]
                    /\ \A j \in 1..(i - 1) : order[j] # type_[2])
    ELSE IF IsFuncType(type_) THEN
        FuncType(rename(type_[2], order), rename(type_[3], order))
    ELSE IF IsGenericType(type_) THEN
        GenericType(type_[2], [i \in 1..Len(type_[3]) |-> rename(type_[3][i], order)])
    ELSE type_

\* two types are equal up to a renaming of their type variables
EqualUpToRenaming(left, right) ==
    LET l == strip_schemes(left)
        r == strip_schemes(right)
    IN rename(l, vars_in_order(l)) = rename(r, vars_in_order(r))

\* the equations the final substitution does not satisfy
Unsatisfied ==
    {i \in 1..Len(equations) :
        ~EqualUpToRenaming(substitute(equations[i][1], substitution),
                           substitute(equations[i][2], substitution))}

\* C5: once every equation is solved without an exception, the closed
\* substitution s makes the two sides of every generated equation equal up to
\* a renaming of type variables: substitute(l, s) = substitute(r, s).
C5_Soundness == Solved => Unsatisfied = {}

\* the free variables of a value of the substitution
free_vars_of(type_) == IF is_type(type_) THEN find_free_vars(type_) ELSE {}

\* C6: the substitution given to _Substitutor is closed under itself: no
\* value of it contains a type variable that is one of its keys.
C6_ClosedSubstitution ==
    Solved =>
        \A i \in 1..Len(substitution) :
            free_vars_of(substitution[i][2]) \cap Keys(substitution) = {}

\* C7: after the _Inserter pass no node of the tree has type_ = None, the
\* elements of a tuple included.
C7_NoNoneTypes ==
    inf_pc # "insert" => \A node \in Nodes(tree) : node[2] # None

\* the type of a scalar element
ScalarType(scalar) == GenericType(ScalarTypeName(scalar[3]), <<>>)

\* C8: on a tuple of two or more scalars infer_types does not raise and gives
\* the vector the type Tuple of the element types in order; on the empty
\* tuple it gives it the type Unit.
C8_TupleTyping ==
    \A es \in SeqsUpTo(Scalars, MaxElems) :
        (Len(es) # 1 /\ Erase(tree) = Tuple(es)) =>
            /\ inf_pc # "raised"
            /\ inf_pc = "done" =>
                tree[2] = IF es = <<>> THEN GenericType("Unit", <<>>)
                          ELSE GenericType("Tuple", [i \in 1..Len(es) |-> ScalarType(es[i])])

(***************************************************************************)
(* Order of the passes in run_code                                         *)
(***************************************************************************)
\* the position in ran of the call of a pass, 0 when it has not run
RanAt(task) ==
    LET at == {i \in 1..Len(ran) : ran[i][2] = task}
    IN IF at = {} THEN 0 ELSE CHOOSE i \in at : \A j \in at : i <= j

\* the pass named first has run, and before the pass named second
RanBefore(first, second) == RanAt(first) # 0 /\ RanAt(first) < RanAt(second)

\* C11: in a compilation that ran to the end (the bytecode was written),
\* expand_strings, resolve_type_vars and, when sort_defs is set,
\* topological_sort ran before infer_types, and inline_functions ran after
\* infer_types, in the codegen phase with simplify and fold_constants, before
\* to_bytecode.
C11_PassOrder ==
    (run_pc = "done" /\ written) =>
        /\ RanBefore("expand_strings", "infer_types")
        /\ RanBefore("resolve_type_vars", "infer_types")
        /\ config.sort_defs => RanBefore("topological_sort", "infer_types")
        /\ RanBefore("infer_types", "inline_functions")
        /\ RanBefore("inline_functions", "to_bytecode")
        /\ RanBefore("simplify", "to_bytecode")
        /\ RanBefore("fold_constants", "to_bytecode")
        /\ \E i \in 1..Len(ran) : ran[i] = <<"codegen", "inline_functions">>

(***************************************************************************)
(* asts/lowered.py                                                         *)
(***************************************************************************)
\* a Python list, told apart from a node
PyList(items) == <<"list", items>>

\* lowered.py:15-28  OperationTypes: the members as <<name, value>>
OperationTypes ==
    { <<"ADD", "+">>, <<"DIV", "/">>, <<"EQUAL", "=">>, <<"EXP", "^">>,
      <<"GREATER", ">">>, <<"JOIN", "<>">>, <<"LESS", "<">>, <<"MUL", "*">>,
      <<"NEG", "~">>, <<"SUB", "-">> }

\* OperationTypes.<name>: the member, or the AttributeError of a name that
\* is not a member
OperationMember(name) ==
    IF \E m \in OperationTypes : m[1] = name
    THEN CHOOSE m \in OperationTypes : m[1] = name
    ELSE Error("AttributeError")

\* lowered.py:31-37  FuncCall.__init__: the attributes of the new node
LoweredFuncCall(span, func, args) ==
    [span |-> span, func |-> func, args |-> func]

(***************************************************************************)
(* visitors/string_expander.py: StringExpander over the base AST.          *)
(* A node is a tuple <<class, span, fields...>>; a Scalar value is         *)
(* <<"str", code points>> or <<"int", number>>.                            *)
(***************************************************************************)
BaseScalar(span, value) == <<"Scalar", span, value>>
BaseName(span, value) == <<"Name", span, value>>
BaseVector(span, vec_type, elements) == <<"Vector", span, vec_type, elements>>
BaseCond(span, pred, cons, else_) == <<"Cond", span, pred, cons, else_>>
BaseFunction(span, param, body) == <<"Function", span, param, body>>
BaseFuncCall(span, caller, callee) == <<"FuncCall", span, caller, callee>>
BaseDefine(span, target, value, body) == <<"Define", span, target, value, body>>
BaseBlock(span, body) == <<"Block", span, body>>

RECURSIVE expand_string_loop(_, _, _)
\* string_expander.py:129-136  the loop of expand_string from prev_end on and
\* the join; <<-1>> when process_match raises ValueError
expand_string_loop(s, end, parts) ==
    IF NextMatch(s, end) = -1 THEN Join(parts)
    ELSE LET start == NextMatch(s, end)
             m == MatchAt(s, start + 1)
             escaped_version == process_match(s, start, m)
         IN IF escaped_version = <<-1>> THEN <<-1>>
            ELSE expand_string_loop(s, start + m.len,
                    parts \o <<SubSeq(s, end + 1, start), escaped_version>>)

\* string_expander.py:112-136
expand_string(s) == expand_string_loop(s, 0, <<>>)

RECURSIVE expand_strings(_)
\* string_expander.py:58-109  StringExpander: the tree a visit returns
expand_strings(node) ==
    IF node[1] = "Block" THEN
        BaseBlock(node[2], [i \in 1..Len(node[3]) |-> expand_strings(node[3][i])])
    ELSE IF node[1] = "Cond" THEN
        BaseCond(node[2], expand_strings(node[3]), expand_strings(node[4]),
                 expand_strings(node[5]))
    ELSE IF node[1] = "Define" THEN
        BaseDefine(node[2], expand_strings(node[3]), expand_strings(node[4]), None)
    ELSE IF node[1] = "FuncCall" THEN
        BaseFuncCall(node[2], expand_strings(node[3]), expand_strings(node[4]))
    ELSE IF node[1] = "Function" THEN
        BaseFunction(node[2], expand_strings(node[3]), expand_strings(node[4]))
    ELSE IF node[1] = "Name" THEN node
    ELSE IF node[1] = "Scalar" THEN
        IF node[3][1] = "str"
        THEN BaseScalar(node[2], <<"str", expand_string(node[3][2])>>)
        ELSE node
    ELSE BaseVector(node[2], node[3],
                    [i \in 1..Len(node[4]) |-> expand_strings(node[4][i])])

\* string_expander.py:34-55  expand_strings: the tree expander.run returns,
\* or the ValueError a chr() call inside it raises
run_expand_strings(root) ==
    LET out == expand_strings(root)
    IN IF \E node \in Nodes(out) : node[1] = "Scalar" /\ node[3] = <<"str", <<-1>>>>
       THEN Error("ValueError")
       ELSE out

(***************************************************************************)
(* codegen: the run-length pass.  A stream is a sequence of runs           *)
(* <<length, byte>>; the result is the sequence of the bytes written.      *)
(***************************************************************************)
\* the largest count a byte holds
MaxCount == 255

\* a pass that writes the length of a run into one byte without splitting it
rebuild_run_unsplit(length, byte) == <<length % 256, byte>>

RECURSIVE rebuild_run(_, _)
\* the bytes written for one run
rebuild_run(length, byte) ==
    IF length > MaxCount THEN <<MaxCount, byte>> \o rebuild_run(length - MaxCount, byte)
    ELSE IF length > 0 THEN <<length, byte>>
    ELSE <<>>

RECURSIVE rebuild_stream(_)
\* codegen.rebuild_stream
rebuild_stream(stream_) ==
    IF stream_ = <<>> THEN <<>>
    ELSE rebuild_run(Head(stream_)[1], Head(stream_)[2]) \o rebuild_stream(Tail(stream_))

(***************************************************************************)
(* Direct calls of single functions and constructors                       *)
(***************************************************************************)
MaxArgs == 2
MaxRuns == 2

\* lowered nodes to build calls from
LoweredNames == {BaseName(<<0, 1>>, "f"), BaseName(<<2, 3>>, "x")}
LoweredArgs == LoweredNames \cup {BaseScalar(<<4, 5>>, <<"int", 1>>)}

\* the names the operators of the lowered grammar have as members of
\* OperationTypes
NativeOperators ==
    {"ADD", "SUB", "MUL", "DIV", "EXP", "MOD", "NEG", "EQUAL", "LESS", "GREATER", "JOIN"}

\* string scalars: x, \n, \x, n\n and the number 1
ScalarValues ==
    {<<"str", <<120>>>>, <<"str", <<92, 110>>>>, <<"str", <<92, 120>>>>,
     <<"str", <<110, 92, 110>>>>, <<"int", 1>>}

BaseScalars == {BaseScalar(<<0, 1>>, v) : v \in ScalarValues}
BaseLeaves == BaseScalars \cup {BaseName(<<2, 3>>, "x")}

\* the trees the expander is run on
BaseTrees ==
    BaseLeaves
    \cup {BaseVector(<<0, 9>>, k, es) : k \in {"LIST", "TUPLE"},
                                       es \in SeqsUpTo(BaseScalars, MaxElems)}
    \cup {BaseCond(<<0, 9>>, BaseName(<<2, 3>>, "x"), c, e) :
            c \in BaseScalars, e \in BaseScalars}
    \cup {BaseFunction(<<0, 9>>, BaseName(<<2, 3>>, "x"), b) : b \in BaseLeaves}
    \cup {BaseFuncCall(<<0, 9>>, BaseName(<<2, 3>>, "x"), a) : a \in BaseLeaves}
    \cup {BaseDefine(<<0, 9>>, BaseName(<<2, 3>>, "x"), v, b) :
            v \in BaseScalars, b \in BaseLeaves \cup {None}}
    \cup {BaseBlock(<<0, 9>>, <<BaseDefine(<<0, 4>>, BaseName(<<2, 3>>, "x"), v, None), e>>) :
            v \in BaseScalars, e \in BaseLeaves}

\* run lengths around the multiples of MaxCount, and two byte values
RunLengths == {1, 254, 255, 256, 510, 782}
Runs == {<<n, b>> : n \in RunLengths, b \in {120, 121}}

\* the values of the substitutions merged: atoms and lists of atoms
SubValues == TypeAtoms \cup {GenericType("List", <<a>>) : a \in TypeAtoms}

\* substitutions of at most two bindings, none of a variable to itself
Substitutions ==
    LET bindings == {b \in (1..MaxTypeVars) \X SubValues : b[2] # TypeVar(b[1])}
    IN {s \in SeqsUpTo(bindings, 2) : Len(s) = 2 => s[1][1] # s[2][1]}

\* run.py:19-20
DEFAULT_FILENAME == "result"
DEFAULT_FILE_EXTENSION == ".livy"

\* a pathlib.Path: the directories down to the file, then the name of the
\* file as its stem and its suffix ("" when the name has no dot)
Path(parent, stem, suffix) == <<"Path", parent, stem, suffix>>

\* Path.cwd()
cwd == Path(<<"home">>, "work", "")

\* path / name, for a name without a dot
JoinPath(path, name) ==
    Path(Append(path[2], path[3] \o path[4]), name, "")

\* Path.with_suffix(suffix): the suffix of the name replaced, or added to a
\* name without one
with_suffix(path, suffix) == Path(path[2], path[3], suffix)

\* what the file system holds at a path: a regular file, a directory, a
\* symbolic link, a socket, or nothing
FileKinds == {"file", "dir", "symlink", "socket", "missing"}

\* the paths the compiler is started on
InputFiles ==
    {Path(parent, stem, suffix) :
        parent \in {<<"home">>, <<"home", "work">>},
        stem \in {"main", "result"},
        suffix \in {"", ".hd", ".livy"}}

\* run.py:193-218  get_output_file(input_file), kind being what the file
\* system holds at input_file
get_output_file(input_file, kind) ==
    LET out_file ==
            IF input_file = None \/ kind \in {"symlink", "socket"}
            THEN JoinPath(cwd, DEFAULT_FILENAME)
            ELSE IF kind = "file" THEN input_file
            ELSE IF kind = "dir" THEN JoinPath(input_file, DEFAULT_FILENAME)
            ELSE JoinPath(cwd, DEFAULT_FILENAME)
    IN with_suffix(out_file, DEFAULT_FILE_EXTENSION)

\* type schemes over one constructor, binding one or both of its variables
Schemes ==
    {TypeScheme(FuncType(TypeVar(1), TypeVar(1)), {1}),
     TypeScheme(FuncType(TypeVar(1), TypeVar(2)), {1}),
     TypeScheme(FuncType(TypeVar(1), TypeVar(2)), {1, 2}),
     TypeScheme(GenericType("List", <<TypeVar(2)>>), {2}),
     TypeScheme(GenericType("Tuple", <<TypeVar(1), TypeVar(2)>>), {1, 2})}

UnitCalls ==
    {<<"FuncCall", <<0, 9>>, f, PyList(as)>> :
        f \in LoweredNames, as \in SeqsUpTo(LoweredArgs, MaxArgs)}
    \cup {<<"OperationTypes", name>> : name \in NativeOperators}
    \cup {<<"expand_strings", t>> : t \in BaseTrees}
    \cup {<<"_EquationGenerator.run", insert(p, 0)>> : p \in Programs}
    \cup {<<"rebuild_stream", s>> : s \in SeqsUpTo(Runs, MaxRuns)}
    \cup {<<"_merge_subs", l, r>> : l \in Substitutions, r \in Substitutions}
    \cup {<<"generalise", t>> : t \in CallTypes}
    \cup {<<"instantiate", s, t>> : s \in Schemes, t \in CallTypes}
    \cup {<<"write_to_file", f, kind>> : f \in InputFiles, kind \in FileKinds}
    \cup {<<"write_to_file", None, "none">>}

InitUnits ==
    /\ call_args \in UnitCalls
    /\ call_pc = "call"
    /\ call_result = None
    /\ n_type_vars = MaxTypeVars
    /\ IdleRun /\ IdleExp /\ IdleEol /\ IdleInf

\* the call has returned (or raised) with result
Returned(result) ==
    /\ call_result' = result
    /\ call_pc' = "done"
    /\ UNCHANGED call_args
    /\ UNCHANGED <<runVars, expVars, eolVars, infVars>>

\* lowered.py:31-37  lowered.FuncCall(span, func, args)
CallFuncCall ==
    /\ call_pc = "call" /\ call_args[1] = "FuncCall"
    /\ Returned(LoweredFuncCall(call_args[2], call_args[3], call_args[4]))
    /\ UNCHANGED n_type_vars

\* lowered.py:15-28  lowered.OperationTypes.<name>
CallOperationType ==
    /\ call_pc = "call" /\ call_args[1] = "OperationTypes"
    /\ Returned(OperationMember(call_args[2]))
    /\ UNCHANGED n_type_vars

\* string_expander.py:34-55  expand_strings(tree)
CallExpandStrings ==
    /\ call_pc = "call" /\ call_args[1] = "expand_strings"
    /\ Returned(run_expand_strings(call_args[2]))
    /\ UNCHANGED n_type_vars

\* type_inferer.py:42-44  generator.run(tree) on a tree from the inserter:
\* the exception it raised and the scope the generator is left in
CallGenerate ==
    /\ call_pc = "call" /\ call_args[1] = "_EquationGenerator.run"
    /\ LET generated == generate(call_args[2].node, NewGenerator(call_args[2].n))
       IN /\ Returned([err |-> generated.g.err,
                       current_scope |-> generated.g.current_scope])
          /\ n_type_vars' = generated.g.n

\* codegen.rebuild_stream(stream)
CallRebuildStream ==
    /\ call_pc = "call" /\ call_args[1] = "rebuild_stream"
    /\ Returned(rebuild_stream(call_args[2]))
    /\ UNCHANGED n_type_vars

\* type_inferer.py:114-121  _merge_subs(left, right)
CallMergeSubs ==
    /\ call_pc = "call" /\ call_args[1] = "_merge_subs"
    /\ LET merged == _merge_subs(call_args[2], call_args[3], n_type_vars)
       IN /\ Returned([err |-> merged.err, sub |-> merged.sub])
          /\ n_type_vars' = merged.n

\* type_inferer.py:191-209  generalise(type_)
CallGeneralise ==
    /\ call_pc = "call" /\ call_args[1] = "generalise"
    /\ Returned(generalise(call_args[2]))
    /\ UNCHANGED n_type_vars

\* type_inferer.py:169-188  instantiate(type_), called twice on one scheme
\* as two uses of it do: call_result gathers the instances
CallInstantiate ==
    /\ call_pc \in {"call", "again"} /\ call_args[1] = "instantiate"
    /\ LET instance == instantiate(call_args[2], n_type_vars)
       IN /\ call_result' = IF call_pc = "call" THEN <<instance.type_>>
                            ELSE Append(call_result, instance.type_)
          /\ n_type_vars' = instance.n
    /\ call_pc' = IF call_pc = "call" THEN "again" ELSE "unify"
    /\ UNCHANGED call_args
    /\ UNCHANGED <<runVars, expVars, eolVars, infVars>>

\* type_inferer.py:51-79  unify(first instance, type_): the first of the two
\* instances is put to use
CallUnifyInstance ==
    /\ call_pc = "unify" /\ call_args[1] = "instantiate"
    /\ LET result == unify(call_result[1], call_args[3], n_type_vars)
       IN /\ Returned([instances |-> call_result, err |-> result.err,
                       sub |-> result.sub])
          /\ n_type_vars' = result.n

\* run.py:177-182  write_to_file(bytecode, config): the file the bytecode is
\* written to
CallWriteToFile ==
    /\ call_pc = "call" /\ call_args[1] = "write_to_file"
    /\ Returned([out_file |-> get_output_file(call_args[2], call_args[3])])
    /\ UNCHANGED n_type_vars

NextUnits ==
    \/ CallFuncCall \/ CallOperationType \/ CallExpandStrings \/ CallGenerate
    \/ CallRebuildStream \/ CallMergeSubs \/ CallGeneralise
    \/ CallInstantiate \/ CallUnifyInstance \/ CallWriteToFile

SpecUnits == InitUnits /\ [][NextUnits]_vars

(***************************************************************************)
(* Properties of the direct calls                                          *)
(***************************************************************************)
\* the call named has returned or raised
Called(name) == call_pc = "done" /\ call_args[1] = name

\* C12: lowered.FuncCall(span, func, args) has func as its func attribute and
\* the list args, the same elements in the same order, as its args attribute.
C12_FuncCallAttributes ==
    Called("FuncCall") =>
        /\ call_result.func = call_args[3]
        /\ call_result.args = call_args[4]

\* C13: OperationTypes has exactly one member for each native operator of
\* the lowered grammar (modulus, OperationTypes.MOD, among them) and no other
\* member, so the lookup of each of these names gives a member.
C13_OperationMembers ==
    Called("OperationTypes") =>
        /\ ~IsError(call_result)
        /\ Cardinality({m \in OperationTypes : m[1] = call_args[2]}) = 1
        /\ \A m \in OperationTypes : m[1] \in NativeOperators

RECURSIVE SameShape(_, _)
\* two trees have the same node classes, spans and children in the same
\* places, and the same values but for the text of string scalars
SameShape(a, b) ==
    IF a = None \/ b = None THEN a = b
    ELSE /\ a[1] = b[1]
         /\ a[2] = b[2]
         /\ IF a[1] = "Scalar" THEN
                IF a[3][1] = "str" THEN b[3][1] = "str" ELSE a[3] = b[3]
            ELSE IF a[1] = "Name" THEN a[3] = b[3]
            ELSE IF a[1] = "Vector" THEN
                /\ a[3] = b[3]
                /\ Len(a[4]) = Len(b[4])
                /\ \A i \in 1..Len(a[4]) : SameShape(a[4][i], b[4][i])
            ELSE IF a[1] = "Cond" THEN
                SameShape(a[3], b[3]) /\ SameShape(a[4], b[4]) /\ SameShape(a[5], b[5])
            ELSE IF a[1] \in {"Function", "FuncCall"} THEN
                SameShape(a[3], b[3]) /\ SameShape(a[4], b[4])
            ELSE IF a[1] = "Define" THEN
                SameShape(a[3], b[3]) /\ SameShape(a[4], b[4]) /\ SameShape(a[5], b[5])
            ELSE /\ Len(a[3]) = Len(b[3])
                 /\ \A i \in 1..Len(a[3]) : SameShape(a[3][i], b[3][i])

\* C14: the tree expand_strings returns has the classes, spans and children
\* of its argument in the same places and differs from it only in the text of
\* string scalars; a Define with a body comes back with its target, value and
\* body.
C14_StructurePreserved ==
    (Called("expand_strings") /\ ~IsError(call_result)) =>
        SameShape(call_args[2], call_result)

\* C16: when _EquationGenerator.run exits, by returning or by raising from a
\* nested visit, current_scope is the scope it was on entry: every scope
\* visit_block, visit_function and visit_define pushed has been popped.
C16_ScopeBalanced ==
    Called("_EquationGenerator.run") =>
        Len(call_result.current_scope) = Len(NewGenerator(0).current_scope)

(***************************************************************************)
(* Unrecognised backslash sequences in expand_string                       *)
(***************************************************************************)
RECURSIVE Unrecognised(_, _)
\* the (0-based) offsets, from pos on, of the backslashes that are outside
\* every match of ESCAPE_PATTERN.finditer, and so start no recognised escape
Unrecognised(s, pos) ==
    IF pos >= Len(s) THEN {}
    ELSE IF MatchAt(s, pos + 1).len > 0
         THEN Unrecognised(s, pos + MatchAt(s, pos + 1).len)
    ELSE (IF s[pos + 1] = Backslash THEN {pos} ELSE {})
         \cup Unrecognised(s, pos + 1)

RECURSIVE Verbatim(_, _)
\* the string with each match replaced by its expansion and every other
\* character, the unrecognised backslash sequences included, left as it is
Verbatim(s, pos) ==
    IF pos >= Len(s) THEN <<>>
    ELSE IF MatchAt(s, pos + 1).len > 0
         THEN process_match(s, pos, MatchAt(s, pos + 1))
              \o Verbatim(s, pos + MatchAt(s, pos + 1).len)
    ELSE <<s[pos + 1]>> \o Verbatim(s, pos + 1)

\* C15: on a string with a backslash sequence that is no recognised escape,
\* expand_string raises no error and returns the sequence verbatim, in its
\* place between the literal text and the expansions around it.
C15_UnrecognisedVerbatim ==
    Unrecognised(string, 0) # {} =>
        /\ exp_pc # "ValueError"
        /\ exp_pc = "done" => expanded = Verbatim(string, 0)

(***************************************************************************)
(* Properties of rebuild_stream                                            *)
(***************************************************************************)
\* the pairs <<count, byte>> a sequence of written bytes holds
PairsOf(bytes) == [i \in 1..(Len(bytes) \div 2) |-> <<bytes[2 * i - 1], bytes[2 * i]>>]

\* the number of pairs a run of the given length is written as
ChunksOf(length) == (length + MaxCount - 1) \div MaxCount

RECURSIVE ChunksBefore(_, _)
\* the number of pairs written for the runs before the k-th
ChunksBefore(stream_, k) ==
    IF k <= 1 THEN 0
    ELSE ChunksBefore(stream_, k - 1) + ChunksOf(stream_[k - 1][1])

\* C17: rebuild_stream writes, for each run <<n, byte>> in input order,
\* n div 255 pairs <<255, byte>> and then one pair <<n mod 255, byte>> when
\* n mod 255 is not 0: every count written is in 1..255 and the counts of a run
\* sum to n.
C17_RunsSplit ==
    Called("rebuild_stream") =>
        LET runs == call_args[2]
            pairs == PairsOf(call_result)
        IN /\ Len(call_result) = 2 * ChunksBefore(runs, Len(runs) + 1)
           /\ \A i \in 1..Len(pairs) : pairs[i][1] \in 1..255
           /\ \A k \in 1..Len(runs) :
                LET n == runs[k][1]
                    first == ChunksBefore(runs, k)
                IN /\ \A j \in 1..(n \div 255) : pairs[first + j] = <<255, runs[k][2]>>
                   /\ (n % 255 # 0) =>
                        pairs[first + (n \div 255) + 1] = <<n % 255, runs[k][2]>>

\* C17 witness: the stream of the test, a run of 782 after a run of 256
C17_Witness ==
    /\ Called("rebuild_stream")
    /\ call_args[2] = << <<256, 120>>, <<782, 121>> >>
    /\ call_result = <<255, 120, 1, 120, 255, 121, 255, 121, 255, 121, 17, 121>>

(***************************************************************************)
(* Mismatches in unify                                                     *)
(***************************************************************************)
\* a type as unify sees it: a type scheme without its quantifier, its bound
\* variables renamed to variables past those of the calls
Instantiated(type_) == instantiate(type_, MaxTypeVars).type_

\* two types neither of which is a variable and that are of different
\* classes, or generics of different bases or numbers of arguments
Mismatched(l, r) ==
    /\ ~IsTypeVar(l) /\ ~IsTypeVar(r)
    /\ \/ l[1] # r[1]
       \/ /\ IsGenericType(l)
          /\ (l[2] # r[2] \/ Len(l[3]) # Len(r[3]))

\* C18: unify raises TypeMismatchError, and returns no substitution, when
\* neither instantiated operand is a TypeVar and the two are of different
\* classes or are generics of different bases or numbers of arguments.
C18_MismatchRaises ==
    (Called("unify")
        /\ Mismatched(Instantiated(call_args[2]), Instantiated(call_args[3]))) =>
        /\ call_result.err = "TypeMismatchError"
        /\ call_result.sub = <<>>

\* C18 witness: a list unified with a pair raised
C18_Witness ==
    /\ Called("unify")
    /\ call_args[2] = GenericType("List", <<IntType>>)
    /\ call_args[3] = GenericType("Tuple", <<IntType, IntType>>)
    /\ call_result.err = "TypeMismatchError"

\* the keys that left and right bind to unequal values
ConflictKeys(left, right) ==
    {k \in Keys(left) \cap Keys(right) : Get(left, k) # Get(right, k)}

\* whether sub holds every binding of part
Contains(sub, part) ==
    \A i \in 1..Len(part) :
        part[i][1] \in Keys(sub) /\ Get(sub, part[i][1]) = part[i][2]

\* C19: for every key that left and right bind to unequal values,
\* _merge_subs raises TypeMismatchError when the two values cannot be
\* unified, and otherwise either raises TypeMismatchError or returns a
\* substitution that holds the bindings of unifying the two values and that
\* makes the two values equal types.
C19_MergeUnifiesConflicts ==
    Called("_merge_subs") =>
        \A k \in ConflictKeys(call_args[2], call_args[3]) :
            LET l == Get(call_args[2], k)
                r == Get(call_args[3], k)
                unified == unify(l, r, MaxTypeVars)
            IN /\ call_result.err \in {"none", "TypeMismatchError"}
               /\ unified.err # "none" => call_result.err = "TypeMismatchError"
               /\ call_result.err = "none" =>
                    /\ Contains(call_result.sub, unified.sub)
                    /\ ~IsError(substitute(l, call_result.sub))
                    /\ substitute(l, call_result.sub) = substitute(r, call_result.sub)

\* the variables a type binds itself: those of its quantifier
bound_types(type_) == IF IsTypeScheme(type_) THEN type_[3] ELSE {}

\* the type under the quantifier of a type
actual_type(type_) == IF IsTypeScheme(type_) THEN type_[2] ELSE type_

\* C20 as stated: generalise(t) returns t when t has no free type variables,
\* and otherwise a single TypeScheme, with no TypeScheme under it, whose
\* bound variables are exactly the free variables of t.
C20_BindsExactlyFree ==
    Called("generalise") =>
        LET t == call_args[2]
        IN IF find_free_vars(t) = {}
           THEN call_result = t
           ELSE /\ IsTypeScheme(call_result)
                /\ ~IsTypeScheme(call_result[2])
                /\ call_result[3] = find_free_vars(t)

\* C20 amended: generalise(t) returns t when t has no free type variables,
\* and otherwise a single TypeScheme, with no TypeScheme under it, over the
\* type under t's quantifier, whose bound variables are the free variables
\* of t together with the variables that t binds itself.
C20_BindsFreeAndBound ==
    Called("generalise") =>
        LET t == call_args[2]
        IN IF find_free_vars(t) = {}
           THEN call_result = t
           ELSE /\ IsTypeScheme(call_result)
                /\ ~IsTypeScheme(call_result[2])
                /\ call_result[2] = actual_type(t)
                /\ call_result[3] = find_free_vars(t) \cup bound_types(t)

\* generalise has returned a scheme over both variables for a scheme that
\* binds one of its two variables
C20_Witness ==
    /\ Called("generalise")
    /\ call_args[2] = TypeScheme(FuncType(TypeVar(1), TypeVar(2)), {1})
    /\ call_result = TypeScheme(FuncType(TypeVar(1), TypeVar(2)), {1, 2})

\* the variables of an instance that its scheme does not have
fresh_vars(scheme, instance) == free_vars_of(instance) \ free_vars_of(scheme[2])

\* the variables of every type of a substitution, its keys included
vars_of_sub(sub) ==
    Keys(sub) \cup UNION {free_vars_of(sub[i][2]) : i \in 1..Len(sub)}

RECURSIVE scheme_free_below(_)
\* whether no part of type_ under its top is a type scheme
scheme_free_below(type_) ==
    IF IsGenericType(type_) THEN
        \A i \in 1..Len(type_[3]) :
            ~IsTypeScheme(type_[3][i]) /\ scheme_free_below(type_[3][i])
    ELSE IF IsFuncType(type_) THEN
        /\ ~IsTypeScheme(type_[2]) /\ scheme_free_below(type_[2])
        /\ ~IsTypeScheme(type_[3]) /\ scheme_free_below(type_[3])
    ELSE IF IsTypeScheme(type_) THEN
        ~IsTypeScheme(type_[2]) /\ scheme_free_below(type_[2])
    ELSE TRUE

\* C22: in every type of the inferer, the values of the substitution, the
\* sides of the equations and the type_ of every node of the tree, a type
\* scheme stands at the top only: it is no argument of a GenericType, no
\* side of a FuncType and not the actual_type of a type scheme.
C22_SchemesOnTop ==
    /\ \A i \in 1..Len(substitution) : scheme_free_below(substitution[i][2])
    /\ \A i \in 1..Len(equations) :
           scheme_free_below(equations[i][1]) /\ scheme_free_below(equations[i][2])
    /\ \A node \in Nodes(tree) : scheme_free_below(node[2])

\* the inferer has returned the tree of \x -> (let id = \x -> x), where the
\* type_ of the function and that of the value defined are type schemes
C22_Witness ==
    /\ inf_pc = "done"
    /\ Erase(tree) = Function(None, x_, Define(None, id_, identity, None))
    /\ IsTypeScheme(tree[2])
    /\ IsTypeScheme(tree[4][4][2])

(***************************************************************************)
(* The optional passes of run_code                                         *)
(***************************************************************************)
\* the passes that have run, in order, those that hand their argument on
\* as it is left out
Applied ==
    LET tasks == [i \in 1..Len(ran) |-> ran[i][2]]
    IN SelectSeq(tasks, LAMBDA task : task # "do_nothing")

\* C23: the optional passes follow their flags only.  Once infer_types has
\* run, topological_sort has run if and only if sort_defs is set, and then
\* after resolve_type_vars and before infer_types; once the bytecode is
\* written, compress has run if and only if compress is set, and then on
\* the bytecode; and the value is what the passes other than the unset ones
\* made of it, the step of an unset flag handing it on unchanged.
C23_OptionalPasses ==
    /\ source = Applied
    /\ RanAt("infer_types") # 0 =>
        /\ config.sort_defs <=> RanAt("topological_sort") # 0
        /\ config.sort_defs =>
            /\ RanBefore("resolve_type_vars", "topological_sort")
            /\ RanBefore("topological_sort", "infer_types")
        /\ ~config.sort_defs =>
            ran[RanAt("infer_types") - 1] = <<"type_checking", "do_nothing">>
    /\ written =>
        /\ config.compress <=> RanAt("compress") # 0
        /\ config.compress => RanAt("compress") = RanAt("to_bytecode") + 1
        /\ ~config.compress => ran[RanAt("to_bytecode") + 1] = <<"codegen", "do_nothing">>
        /\ Len(ran) = RanAt("to_bytecode") + 1

\* a compilation has written its bytecode with sort_defs unset and compress set
C23_Witness ==
    /\ written
    /\ ~config.sort_defs /\ config.compress
    /\ source[Len(source)] = "compress"
    /\ \E i \in 1..Len(ran) : ran[i] = <<"type_checking", "do_nothing">>

(***************************************************************************)
(* What insert_eols keeps and what it ends with                            *)
(***************************************************************************)
\* the tokens of a stream other than whitespace, in order
NonWhitespace(s) == SelectSeq(s, LAMBDA token : token.type_ # "whitespace")

RECURSIVE KeptWithEols(_, _)
\* whether out is kept with eol tokens put in: leaving out some tokens of
\* out that are eol tokens without a value gives kept
KeptWithEols(out, kept) ==
    IF out = <<>> THEN kept = <<>>
    ELSE \/ /\ kept # <<>>
            /\ Head(out) = Head(kept)
            /\ KeptWithEols(Tail(out), Tail(kept))
         \/ /\ Head(out).type_ = "eol"
            /\ Head(out).value = None
            /\ KeptWithEols(Tail(out), kept)

\* C24: the output of insert_eols holds no whitespace token, and without
\* the eol tokens insert_eols put in it is the input without its whitespace
\* tokens, each unchanged and in the same order.
C24_WhitespaceRemoved ==
    /\ \A j \in 1..Len(emitted) : emitted[j].type_ # "whitespace"
    /\ eol_pc = "done" => KeptWithEols(emitted, NonWhitespace(stream))

\* insert_eols has returned on a stream with whitespace between two tokens
C24_Witness ==
    /\ eol_pc = "done"
    /\ Len(stream) = 3
    /\ stream[1].type_ = "let"
    /\ stream[2].type_ = "whitespace"
    /\ stream[3].type_ = "rparen"
    /\ Len(emitted) = 3
    /\ emitted[1] = stream[1] /\ emitted[2] = stream[3]

\* C27: on a stream that is not empty the output of insert_eols ends with
\* an eol or eof token: when the last token of the stream is neither, one
\* eol token, and no more, comes after the last token kept, and when it is
\* one the output ends with that token itself; on the empty stream nothing
\* is handed on at all.
C27_EndsWithEol ==
    eol_pc = "done" =>
        IF stream = <<>> THEN emitted = <<>>
        ELSE /\ emitted # <<>>
             /\ emitted[Len(emitted)].type_ \in {"eol", "eof"}
             /\ LET last == stream[Len(stream)]
                    kept == NonWhitespace(stream)
                    front == SubSeq(emitted, 1, Len(emitted) - 1)
                IN IF last.type_ \in {"eol", "eof"}
                   THEN /\ emitted[Len(emitted)] = last
                        /\ KeptWithEols(front, SubSeq(kept, 1, Len(kept) - 1))
                   ELSE /\ emitted[Len(emitted)].type_ = "eol"
                        /\ KeptWithEols(front, kept)
                        /\ IF kept = <<>> THEN front = <<>>
                           ELSE /\ front # <<>>
                                /\ front[Len(front)] = kept[Len(kept)]

\* insert_eols has returned on a stream that ends with whitespace after a name
C27_Witness ==
    /\ eol_pc = "done"
    /\ Len(stream) = 2
    /\ stream[1].type_ = "name_"
    /\ stream[2].type_ = "whitespace"
    /\ Len(emitted) = 2
    /\ emitted[1] = stream[1]
    /\ emitted[2].type_ = "eol"

(***************************************************************************)
(* infer_types from the solving on, on bounded lists of equations          *)
(***************************************************************************)
MaxEquations == 2

\* the lists of equations between the atoms of the calls
EquationLists == SeqsUpTo(TypeAtoms \X TypeAtoms, MaxEquations)

\* type_inferer.py:45  the generator has run and left its equations; the
\* tree is a name typed with the first variable
InitSolve ==
    /\ tree = Name(TypeVar(1), "x")
    /\ equations \in EquationLists
    /\ eq_ix = 0
    /\ substitution = <<>>
    /\ inf_pc = "solve"
    /\ inf_error = None
    /\ n_type_vars = MaxTypeVars
    /\ IdleRun /\ IdleExp /\ IdleEol /\ IdleCall

NextSolve == InferSolve \/ InferClose \/ InferSubstitute

SpecSolve == InitSolve /\ [][NextSolve]_vars

\* C25: infer_types comes to an end on every list of equations: the
\* recursion of substitute is never without end (what Python ends with
\* RecursionError), not in the solving of an equation, not in the closing
\* of the substitution and not in the last pass over the tree, also when
\* the merged substitution binds two variables to each other.
C25_Terminates ==
    inf_error # Error("RecursionError")

\* C26: the file the bytecode is written to is never the file the source
\* was read from, whatever the path of the source, that of a regular file
\* with the suffix .livy included.
C26_SourceNotOverwritten ==
    (Called("write_to_file") /\ call_args[2] # None) =>
        call_result.out_file # call_args[2]

====
